---------------------------- MODULE Spec2Model ----------------------------
(***************************************************************************)
(* A model of the storage and concurrency core of BusTub                   *)
(* (yinghaoyu/Bustub): the lock manager with its deadlock detector         *)
(* (src/src/concurrency/lock_manager.cpp), the buffer pool manager         *)
(* instance with its LRU replacer, the LRU and clock replacers on their    *)
(* own (src/src/buffer) and the B+Tree index                               *)
(* (src/src/storage/index, src/src/storage/page).                          *)
(*                                                                         *)
(* Each subsystem has its own specifications (SpecLMQueue, SpecBPM, ...) over *)
(* the variables it owns; the variables of the other subsystems keep       *)
(* their initial values under it.                                          *)
(***************************************************************************)
EXTENDS Integers, Sequences, FiniteSets, TLC

(***************************************************************************)
(* Bounds of the model.                                                    *)
(***************************************************************************)
\* transaction ids are 0..MaxTxnId
MaxTxnId == 2
\* record ids are 1..NumRids
NumRids == 2
\* pool_size_ of the buffer pool instance: frames are 0..PoolSize-1
PoolSize == 2
\* NewPage is called while the instance has handed out at most MaxPageId page
\* ids: with one instance, while next_page_id_ <= MaxPageId
MaxPageId == 2
\* a buffer pool instance is one of 1..MaxInstances instances
MaxInstances == 2
\* FetchPage of a resident page is called while its pin count is below MaxPin
MaxPin == 2
\* a page's bytes are one value of 0..MaxData, 0 standing for the zeroed page
MaxData == 1
\* keys of the B+Tree are 1..MaxKey
MaxKey == 6
\* values stored in the B+Tree are 1..MaxValue
MaxValue == 2
\* the tree is constructed with a leaf_max_size_ of 2..MaxLeafMaxSize and
\* an internal_max_size_ of InternalMaxSize
MaxLeafMaxSize == 3
InternalMaxSize == 3
\* the tree allocates pages while their ids stay <= MaxTreePageId
MaxTreePageId == 8
\* threads calling the tree at the same time are 1..NumTreeThreads, their keys
\* are 1..MaxConcKey and together they make at most MaxTreeOps calls
NumTreeThreads == 2
MaxConcKey == 3
MaxTreeOps == 5
\* the calls whose pins are counted use the keys 1..MaxPinKey, and GetValue is
\* called while the pin count of every page of the tree is below MaxTreePin
MaxPinKey == 4
MaxTreePin == 2
\* the threads that log are 1..NumLogThreads, each running one transaction
\* that inserts at most MaxTuples tuples
NumLogThreads == 2
\* one thread on its own calls the tree with the keys 1..MaxCrabKey
MaxCrabKey == 5
MaxTuples == 1
\* a replacer on its own is constructed with num_pages = ReplacerPages: its
\* the hash table: a bucket page holds BucketArraySize pairs, a bucket is split
\* up to local depth MaxBucketDepth, the keys are 0..MaxHashKey and a run makes
\* MaxHashOps calls
BucketArraySize == 1
MaxBucketDepth == 3
MaxHashKey == 7
MaxHashOps == 6
\* frames are 0..ReplacerPages-1
ReplacerPages == 3
\* threads calling the clock replacer at the same time are 1..NumClockThreads
NumClockThreads == 2

VARIABLES
  \* ---- lock manager (lock_manager.cpp) ----
  lock_table,          \* rid -> request_queue_ : Seq([txn_id, lock_mode, granted])
  upgrading,           \* rid -> LockRequestQueue::upgrading_
  txn_state,           \* txn -> GROWING | SHRINKING | ABORTED
  isolation,           \* txn -> REPEATABLE_READ | READ_COMMITTED | READ_UNCOMMITTED
  shared_lock_set,     \* txn -> set of rids (Transaction::GetSharedLockSet)
  exclusive_lock_set,  \* txn -> set of rids (Transaction::GetExclusiveLockSet)
  waiting,             \* txn -> where the transaction's thread is blocked in cv_.wait
  last_result,         \* txn -> the AbortReason thrown by its last call, "none" if it returned
  crashed              \* a BUSTUB_ASSERT of the lock manager has failed

lmvars == <<lock_table, upgrading, txn_state, isolation, shared_lock_set,
            exclusive_lock_set, waiting, last_result, crashed>>

VARIABLES
  \* ---- buffer pool manager instance (buffer_pool_manager_instance.cpp) ----
  pages,               \* frame -> [page_id, pin_count, is_dirty, data] (pages_)
  page_table,          \* resident page id -> frame (page_table_)
  free_list,           \* free_list_, front first
  lru_list,            \* LRUReplacer::lru_list_, front first
  next_page_id,        \* next_page_id_
  disk,                \* page id -> the bytes DiskManager holds for it
  bpm_ret,             \* the last call of the pool and whether it succeeded
  bpm_latch,           \* latch_: "free" between calls, "deadlocked" once a call
                       \* waits for it while holding it
  promised,            \* page id -> {the bytes it had at its last UnpinPage(.., true)}, or {}
  num_instances,       \* num_instances_
  instance_index,      \* instance_index_
  handed_out           \* the page ids NewPage has returned, in the order of the calls

\* what the constructor fixes and the record of the ids handed out
bpminst == <<num_instances, instance_index, handed_out>>

bpmvars == <<pages, page_table, free_list, lru_list, next_page_id, disk, bpm_ret,
             bpm_latch, promised, bpminst>>

VARIABLES
  \* ---- B+Tree (b_plus_tree.cpp) over the pages it keeps in the pool ----
  tree_pages,          \* page id -> [page_type, parent_page_id, array, next_page_id]
  root_page_id,        \* root_page_id_
  leaf_max_size,       \* leaf_max_size_
  tree_next_page_id,   \* the id the pool's AllocatePage hands to the tree next
  tree_ret,            \* the last call of the tree and what it returned
  tree_crashed,        \* an assert of the tree has failed or it has dereferenced nullptr
  ref,                 \* the reference key -> value map run side by side
  ref_ret              \* what the reference map returns for the same call

treevars == <<tree_pages, root_page_id, leaf_max_size, tree_next_page_id, tree_ret, tree_crashed,
              ref, ref_ret>>

VARIABLES
  \* ---- the threads calling the B+Tree and its latches ----
  thread_pc,           \* thread -> the point its call has reached, "idle" between calls
  threads,             \* thread -> its call and what its transaction holds
  page_latch,          \* page id -> [w, r]: the thread holding the page's latch for
                       \* writing (0 for none) and the threads holding it for reading
  root_latch,          \* the thread holding the root mutex, 0 for none
  root_is_locked,      \* root_is_locked_, one cell per thread (cell 1 when shared)
  flag_shared,         \* root_is_locked_ is one flag of the tree
  history,             \* the keys whose Insert has started, has returned true, and
                       \* the keys a Remove has been called for
  ops_left             \* the calls the threads may still make

latchvars == <<thread_pc, threads, page_latch, root_latch, root_is_locked, flag_shared, history, ops_left>>

VARIABLES
  \* ---- a replacer on its own (lru_replacer.cpp, clock_replacer.cpp) ----
  replacer,            \* the policy of the replacer constructed: "LRU" or "Clock"
  lru_r,               \* LRUReplacer::lru_list_, front first
  clk_frames,          \* ClockReplacer::frames_: frame -> [contains, ref]
  clk_next,            \* ClockReplacer::next_, the hand
  clk_pc,              \* thread -> the point its Victim call has reached, "idle"
                       \* between calls
  repl_ret,            \* the last call of the replacer, what it returned and what
                       \* it met: Size() and whether the frame was tracked before it
  unpin_order          \* the frames unpinned and since then neither pinned nor
                       \* chosen as victim, the one unpinned first at the head

replvars == <<replacer, lru_r, clk_frames, clk_next, clk_pc, repl_ret, unpin_order>>

VARIABLES
  \* ---- the pins of the tree's pages (Page::pin_count_) ----
  tree_pins            \* page id -> the fetches of the page not yet matched by an
                       \* UnpinPage

pinvars == <<tree_pins>>

VARIABLES
  \* ---- the log (log manager, transaction manager and table heap as the ----
  \* ---- tests of log_manager_test.cpp drive them)                      ----
  next_lsn,            \* LogManager::next_lsn_
  next_txn_id,         \* TransactionManager::next_txn_id_
  log_buffer,          \* the records appended and not yet taken by the flush thread
  flush_buffer,        \* the records the flush thread is writing
  log_file,            \* the records of the log file in file order
  log_txn,             \* thread -> its transaction: [pc, txn_id, prev_lsn,
                       \* inserted, marked]
  table_created        \* the table heap has been constructed

logvars == <<next_lsn, next_txn_id, log_buffer, flush_buffer, log_file, log_txn, table_created>>

VARIABLES
  \* ---- the wait-for graph on its own (lock_manager.cpp, lines 188-299) ----
  waits_for,           \* LockManager::waits_for_: txn id -> the sorted vector of the
                       \* ids it waits for
  wf_edges,            \* the edges AddEdge has been called with and RemoveEdge has not
  cycle_ret            \* what the last HasCycle returned, for the graph as it is now

graphvars == <<waits_for, wf_edges, cycle_ret>>

VARIABLES
  \* ---- the extendible hash table (extendible_hash_table.cpp) ----
  global_depth,        \* HashTableDirectoryPage::global_depth_
  local_depths,        \* directory slot -> local_depths_[slot]
  bucket_page_ids,     \* directory slot -> bucket_page_ids_[slot]
  bucket_pages,        \* page id -> the array of the bucket page, NoKey where a slot
                       \* is not readable
  hash_next_page_id,   \* the page id the next NewPage gives
  hash_ret,            \* the last call of the table and what it returned
  hash_ops             \* calls of the table left in a run

hashvars == <<global_depth, local_depths, bucket_page_ids, bucket_pages,
              hash_next_page_id, hash_ret, hash_ops>>

vars == <<lmvars, bpmvars, treevars, latchvars, replvars, pinvars, logvars,
          graphvars, hashvars>>

\* the variables outside each subsystem
notLM == <<bpmvars, treevars, latchvars, replvars, pinvars, logvars,
  graphvars, hashvars>>
notBPM == <<lmvars, treevars, latchvars, replvars, pinvars, logvars,
  graphvars, hashvars>>
notTree == <<lmvars, bpmvars, latchvars, replvars, pinvars, logvars,
  graphvars, hashvars>>
notRepl == <<lmvars, bpmvars, treevars, latchvars, pinvars, logvars,
  graphvars, hashvars>>
notLog == <<lmvars, bpmvars, treevars, latchvars, replvars, pinvars, graphvars, hashvars>>
notGraph == <<lmvars, bpmvars, treevars, latchvars, replvars, pinvars, logvars, hashvars>>
notHash == <<lmvars, bpmvars, treevars, latchvars, replvars, pinvars, logvars, graphvars>>

Txns == 0..MaxTxnId
Rids == 1..NumRids

(***************************************************************************)
(* Sequence helpers.                                                       *)
(***************************************************************************)
RemoveAt(s, i) == SubSeq(s, 1, i - 1) \o SubSeq(s, i + 1, Len(s))

InsertAt(s, i, e) == SubSeq(s, 1, i - 1) \o <<e>> \o SubSeq(s, i, Len(s))

SetMax(S) == CHOOSE x \in S : \A y \in S : y <= x

SetMin(S) == CHOOSE x \in S : \A y \in S : x <= y

\* first index of s whose element satisfies P, 0 when none (std::find_if)
FirstIndex(s, P(_)) ==
  IF \E i \in 1..Len(s) : P(s[i])
  THEN SetMin({i \in 1..Len(s) : P(s[i])})
  ELSE 0


(***************************************************************************)
(*                     BUFFER POOL MANAGER INSTANCE                        *)
(* One instance over the LRU replacer: num_instances_ = 1 and              *)
(* instance_index_ = 0, but under SpecBPMAlloc, where it is any instance   *)
(* of up to MaxInstances.  Every public call runs under latch_, so each is *)
(* one step.                                                               *)
(***************************************************************************)
INVALID_PAGE_ID == -1

Frames == 0..(PoolSize - 1)
PageIds == 0..MaxPageId
Data == 0..MaxData

\* ---- LRUReplacer ----
\* Victim: the back of lru_list_, removed; frame -1 when nothing is tracked
Victim(lru) ==
  IF lru = <<>>
  THEN [ok |-> FALSE, frame |-> -1, lru |-> lru]
  ELSE [ok |-> TRUE, frame |-> lru[Len(lru)], lru |-> SubSeq(lru, 1, Len(lru) - 1)]

\* a Pin that leaves the list as it is
PinKeeping(lru, f) == lru

\* Pin: the frame is erased from lru_list_ when lru_map_ holds it
Pin(lru, f) == SelectSeq(lru, LAMBDA x : x # f)

RECURSIVE DropToCapacity(_, _)
\* the while loop of Unpin: pop the back while size >= capacity_
DropToCapacity(lru, capacity) ==
  IF Len(lru) >= capacity
  THEN DropToCapacity(SubSeq(lru, 1, Len(lru) - 1), capacity)
  ELSE lru

\* an Unpin that moves a frame it already tracks to the front
UnpinRefreshing(lru, f, capacity) ==
  <<f>> \o DropToCapacity(SelectSeq(lru, LAMBDA x : x # f), capacity)

\* Unpin of a replacer constructed with num_pages = capacity
Unpin(lru, f, capacity) ==
  IF \E i \in 1..Len(lru) : lru[i] = f
  THEN lru
  ELSE <<f>> \o DropToCapacity(lru, capacity)

\* ---- BufferPoolManagerInstance ----
\* page_table_.find: the frame of page id p, -1 when p is not resident
FindPage(pt, p) == IF p \in DOMAIN pt THEN pt[p] ELSE -1

\* an erase that leaves the entry of p in the page table
KeepEntry(pt, p) == pt

\* page_table_.erase(p)
Erase(pt, p) == [q \in DOMAIN pt \ {p} |-> pt[q]]

\* page_table_[p] = f
Map(pt, p, f) == [q \in DOMAIN pt \cup {p} |-> IF q = p THEN f ELSE pt[q]]

\* FlushPg on pool state b (a record of pages, page_table, disk and the two
\* lists): a resident dirty page is written, its dirty bit and its pin count
\* are reset
FlushPg(b, p) ==
  LET f == FindPage(b.page_table, p)
  IN  IF f = -1 THEN b
      ELSE IF b.pages[f].is_dirty
      THEN [b EXCEPT !.disk = [@ EXCEPT ![p] = b.pages[f].data],
                     !.pages = [@ EXCEPT ![f].is_dirty = FALSE, ![f].pin_count = 0]]
      ELSE b

\* FindAvailablePg: the pool state after it, with the frame it returns
FindAvailablePg(b) ==
  IF b.free_list # <<>>
  THEN [frame |-> Head(b.free_list), b |-> [b EXCEPT !.free_list = Tail(@)]]
  ELSE LET v == Victim(b.lru_list)
       IN  IF v.ok
           THEN LET pageid == b.pages[v.frame].page_id
                    b1 == FlushPg([b EXCEPT !.lru_list = v.lru], pageid)
                IN  [frame |-> v.frame,
                     b |-> [b1 EXCEPT !.page_table = Erase(@, pageid)]]
           ELSE [frame |-> -1, b |-> b]

\* the pool state as one record, and the step that installs one
Pool ==
  [pages |-> pages, page_table |-> page_table, free_list |-> free_list,
   lru_list |-> lru_list, disk |-> disk]

Install(b) ==
  /\ pages' = b.pages
  /\ page_table' = b.page_table
  /\ free_list' = b.free_list
  /\ lru_list' = b.lru_list
  /\ disk' = b.disk

Ret(op, ok) == [op |-> op, ok |-> ok]

\* std::scoped_lock on latch_ at the head of every public call: the call goes
\* on when no call holds the latch, and releases it when it returns
Latch == bpm_latch = "free" /\ UNCHANGED bpm_latch

\* an AllocatePage that steps by one whatever num_instances_ is
AllocateNext(next, n) == next + 1

\* AllocatePage, lines 180-185: the value next_page_id_ takes; the call
\* returns the old one, which ValidatePageId finds to be of this instance
AllocatePage(next, n) == next + n

NewPage ==
  /\ next_page_id <= MaxPageId * num_instances + instance_index
  /\ Latch
  /\ UNCHANGED notBPM
  /\ UNCHANGED <<num_instances, instance_index>>
  /\ UNCHANGED promised
  /\ LET a == FindAvailablePg(Pool)
         f == a.frame
     IN  IF f = -1
         THEN /\ bpm_ret' = Ret("NewPage", FALSE)
              /\ UNCHANGED <<pages, page_table, free_list, lru_list, disk, next_page_id,
                             handed_out>>
         ELSE /\ bpm_ret' = Ret("NewPage", TRUE)
              /\ next_page_id' = AllocatePage(next_page_id, num_instances)
              /\ handed_out' = Append(handed_out, next_page_id)
              /\ Install([a.b EXCEPT
                    !.pages = [@ EXCEPT ![f].page_id = next_page_id,
                                        ![f].pin_count = @ + 1,
                                        ![f].data = 0],
                    !.page_table = Map(@, next_page_id, f)])

FetchPage(p) ==
  /\ p < next_page_id
  /\ Latch
  /\ UNCHANGED notBPM
  /\ UNCHANGED bpminst
  /\ UNCHANGED <<next_page_id, promised>>
  /\ LET frame_id == FindPage(page_table, p)
     IN  IF frame_id # -1
         THEN /\ pages[frame_id].pin_count < MaxPin
              /\ bpm_ret' = Ret("FetchPage", TRUE)
              /\ Install([Pool EXCEPT
                    !.pages = [@ EXCEPT ![frame_id].pin_count = @ + 1,
                                        ![frame_id].is_dirty = TRUE],
                    !.lru_list = Pin(@, frame_id)])
         ELSE LET a  == FindAvailablePg(Pool)
                  f  == a.frame
                  b1 == FlushPg(a.b, a.b.pages[f].page_id)
                  b2 == [b1 EXCEPT !.page_table = Erase(@, b1.pages[f].page_id)]
              IN  IF f = -1
                  THEN /\ bpm_ret' = Ret("FetchPage", FALSE)
                       /\ UNCHANGED <<pages, page_table, free_list, lru_list, disk>>
                  ELSE /\ bpm_ret' = Ret("FetchPage", TRUE)
                       /\ Install([b2 EXCEPT
                             !.page_table = Map(@, p, f),
                             !.pages = [@ EXCEPT ![f].page_id = p,
                                                 ![f].pin_count = @ + 1,
                                                 ![f].is_dirty = FALSE,
                                                 ![f].data = b2.disk[p]],
                             !.lru_list = Pin(@, f)])

UnpinPage(p, is_dirty) ==
  /\ p < next_page_id
  /\ Latch
  /\ UNCHANGED notBPM
  /\ UNCHANGED bpminst
  /\ UNCHANGED next_page_id
  /\ LET f == FindPage(page_table, p)
     IN  IF f = -1 \/ pages[f].pin_count = 0
         THEN /\ bpm_ret' = Ret("UnpinPage", FALSE)
              /\ UNCHANGED <<pages, page_table, free_list, lru_list, disk, promised>>
         ELSE LET b1 == [Pool EXCEPT !.pages = [@ EXCEPT ![f].is_dirty = is_dirty,
                                                         ![f].pin_count = @ - 1]]
              IN  /\ bpm_ret' = Ret("UnpinPage", TRUE)
                  /\ promised' = IF is_dirty THEN [promised EXCEPT ![p] = {pages[f].data}]
                                 ELSE promised
                  /\ IF b1.pages[f].pin_count = 0
                     THEN Install(FlushPg([b1 EXCEPT !.lru_list = Unpin(@, f, PoolSize)], p))
                     ELSE Install(b1)

FlushPage(p) ==
  /\ p < next_page_id
  /\ Latch
  /\ UNCHANGED notBPM
  /\ UNCHANGED bpminst
  /\ UNCHANGED <<next_page_id, promised>>
  /\ IF p \notin DOMAIN page_table
     THEN /\ bpm_ret' = Ret("FlushPage", FALSE)
          /\ UNCHANGED <<pages, page_table, free_list, lru_list, disk>>
     ELSE /\ bpm_ret' = Ret("FlushPage", TRUE)
          /\ Install(FlushPg(Pool, p))

DeletePage(p) ==
  /\ p < next_page_id
  /\ Latch
  /\ UNCHANGED notBPM
  /\ UNCHANGED bpminst
  /\ UNCHANGED <<next_page_id, lru_list, disk>>
  /\ LET f == FindPage(page_table, p)
     IN  IF f = -1
         THEN /\ bpm_ret' = Ret("DeletePage", TRUE)
              /\ UNCHANGED <<pages, page_table, free_list, promised>>
         ELSE IF pages[f].pin_count # 0
         THEN /\ bpm_ret' = Ret("DeletePage", FALSE)
              /\ UNCHANGED <<pages, page_table, free_list, promised>>
         ELSE /\ bpm_ret' = Ret("DeletePage", TRUE)
              /\ page_table' = Erase(page_table, p)
              /\ pages' = [pages EXCEPT ![f].page_id = INVALID_PAGE_ID,
                                        ![f].is_dirty = FALSE,
                                        ![f].data = 0]
              /\ free_list' = Append(free_list, f)
              /\ promised' = [promised EXCEPT ![p] = {}]

\* FlushAllPgsImp, lines 67-73: the call locks latch_ and calls FlushPgImp for
\* every entry of the page table; FlushPgImp locks latch_ again (line 57).
\* latch_ is a std::mutex, and locking it from the thread that owns it is
\* undefined: the thread waits for itself for ever, or lock() throws and the
\* call is abandoned with nothing written.  With an empty page table the loop
\* has nothing to do and the call returns.
FlushAllPages ==
  /\ bpm_latch = "free"
  /\ UNCHANGED notBPM
  /\ UNCHANGED bpminst
  /\ UNCHANGED <<pages, page_table, free_list, lru_list, next_page_id, disk, promised>>
  /\ IF page_table = <<>>
     THEN bpm_ret' = Ret("FlushAllPages", TRUE) /\ UNCHANGED bpm_latch
     ELSE \/ bpm_latch' = "deadlocked" /\ UNCHANGED bpm_ret
          \/ bpm_latch' = "free" /\ bpm_ret' = Ret("FlushAllPages", FALSE)

\* a thread that has page p pinned changes its bytes through Page::GetData
WriteData(p, d) ==
  /\ p \in DOMAIN page_table
  /\ UNCHANGED bpm_latch
  /\ pages[page_table[p]].pin_count > 0
  /\ pages[page_table[p]].data # d
  /\ UNCHANGED notBPM
  /\ UNCHANGED bpminst
  /\ pages' = [pages EXCEPT ![page_table[p]].data = d]
  /\ promised' = [promised EXCEPT ![p] = {}]
  /\ UNCHANGED <<page_table, free_list, lru_list, next_page_id, disk, bpm_ret>>

\* the constructor of instance index of n: every frame on the free list, nothing
\* on disk, next_page_id_ = instance_index
InitBufferPoolOf(n, index) ==
  /\ num_instances = n
  /\ instance_index = index
  /\ handed_out = <<>>
  /\ pages = [f \in Frames |-> [page_id |-> INVALID_PAGE_ID, pin_count |-> 0,
                                is_dirty |-> FALSE, data |-> 0]]
  /\ page_table = <<>>
  /\ free_list = [i \in 1..PoolSize |-> i - 1]
  /\ lru_list = <<>>
  /\ next_page_id = index
  /\ disk = [p \in 0..(MaxPageId * n + index) |-> 0]
  /\ bpm_ret = Ret("none", TRUE)
  /\ bpm_latch = "free"
  /\ promised = [p \in 0..(MaxPageId * n + index) |-> {}]

\* the constructor of lines 21-23: one instance, with index 0
InitBufferPool == InitBufferPoolOf(1, 0)

(***************************************************************************)
(*                        REPLACERS ON THEIR OWN                           *)
(* A replacer constructed with num_pages = ReplacerPages and called        *)
(* through Victim, Pin, Unpin and Size (src/src/buffer/lru_replacer.cpp,   *)
(* clock_replacer.cpp).  Every call of the LRU replacer and the Pin, Unpin *)
(* and Size of the clock replacer run under the replacer's mutex from the  *)
(* first line to the last, so each is one step.  ClockReplacer::Victim     *)
(* calls Size() before it takes the mutex: called by one thread it is one  *)
(* step (ClockReplacerVictim), called by concurrent threads it is the      *)
(* steps VictimSize, VictimLock and VictimSweep.                           *)
(***************************************************************************)
ReplFrames == 0..(ReplacerPages - 1)
ClockThreads == 1..NumClockThreads

\* LRUReplacer::Size
LRUSize(lru) == Len(lru)

\* ClockReplacer::Size: the slots with contains set
ClockSize(fr) == Cardinality({f \in DOMAIN fr : fr[f].contains})

\* ClockReplacer::Pin and Unpin on frames_
ClockPin(fr, f) == [fr EXCEPT ![f] = [contains |-> FALSE, ref |-> FALSE]]

ClockUnpin(fr, f) == [fr EXCEPT ![f] = [contains |-> TRUE, ref |-> TRUE]]

\* a pass that leaves the reference bit of a present slot as it is
SweepStepKeepingRef(fr, next) ==
  IF fr[next].contains /\ ~fr[next].ref
  THEN [done |-> TRUE, frame |-> next,
        frames |-> [fr EXCEPT ![next].contains = FALSE], next |-> next]
  ELSE [done |-> FALSE, frame |-> -1, frames |-> fr,
        next |-> IF next + 1 >= ReplacerPages THEN 0 ELSE next + 1]

\* a pass that returns a slot without looking at its reference bit
SweepStepIgnoringRef(fr, next) ==
  IF fr[next].contains
  THEN [done |-> TRUE, frame |-> next,
        frames |-> [fr EXCEPT ![next].contains = FALSE], next |-> next]
  ELSE [done |-> FALSE, frame |-> -1, frames |-> fr,
        next |-> IF next + 1 >= ReplacerPages THEN 0 ELSE next + 1]

\* one pass of the loop of ClockReplacer::Victim (lines 34-49) with the hand
\* at next: it returns the slot (done, the hand stays on it) or moves on
SweepStep(fr, next) ==
  IF fr[next].contains /\ ~fr[next].ref
  THEN [done |-> TRUE, frame |-> next,
        frames |-> [fr EXCEPT ![next].contains = FALSE], next |-> next]
  ELSE [done |-> FALSE, frame |-> -1,
        frames |-> IF fr[next].contains THEN [fr EXCEPT ![next].ref = FALSE] ELSE fr,
        next |-> IF next + 1 >= ReplacerPages THEN 0 ELSE next + 1]

RECURSIVE Sweep(_, _)
\* the loop of Victim run to its return
Sweep(fr, next) ==
  LET s == SweepStep(fr, next)
  IN  IF s.done THEN [ok |-> TRUE, frame |-> s.frame, frames |-> s.frames, next |-> s.next]
      ELSE Sweep(s.frames, s.next)

RECURSIVE HandSteps(_, _, _)
\* the passes the loop of Victim makes from frames fr with the hand at next,
\* up to and with the pass that returns, each pass looking at the slot under
\* the hand; limit + 1 when the loop has not returned after limit passes
HandSteps(fr, next, limit) ==
  LET s == SweepStep(fr, next)
  IN  IF s.done \/ limit = 0 THEN 1
      ELSE 1 + HandSteps(s.frames, s.next, limit - 1)

\* ClockReplacer::Victim called while no other thread calls the replacer
ClockVictim(fr, next) ==
  IF ClockSize(fr) = 0
  THEN [ok |-> FALSE, frame |-> -1, frames |-> fr, next |-> next]
  ELSE Sweep(fr, next)

\* what a call leaves in repl_ret: met is lru_list_ or frames_ as the call
\* found it, run the frames the Victim calls made in a row up to this one
\* have returned, prev the call made before this one
NoCall == [op |-> "none", frame |-> -1, met |-> <<>>]

RRet(op, frame, ok, met, run) ==
  [op |-> op, frame |-> frame, ok |-> ok, met |-> met, run |-> run,
   prev |-> [op |-> repl_ret.op, frame |-> repl_ret.frame, met |-> repl_ret.met]]

PrevRun == IF repl_ret.op = "Victim" THEN repl_ret.run ELSE <<>>

Tracked(f) == \E i \in 1..Len(unpin_order) : unpin_order[i] = f

Forget(f) == SelectSeq(unpin_order, LAMBDA x : x # f)

\* no thread holds the mutex of the clock replacer
MutexFree == \A t \in ClockThreads : clk_pc[t] # "sweep"

AllIdle == \A t \in ClockThreads : clk_pc[t] = "idle"

\* ---- the calls of the LRU replacer ----
LRUReplacerVictim ==
  /\ replacer = "LRU"
  /\ UNCHANGED notRepl
  /\ UNCHANGED <<replacer, clk_frames, clk_next, clk_pc>>
  /\ LET v == Victim(lru_r)
     IN  /\ lru_r' = v.lru
         /\ repl_ret' = RRet("Victim", v.frame, v.ok, lru_r,
                             IF v.ok THEN Append(PrevRun, v.frame) ELSE PrevRun)
         /\ unpin_order' = IF v.ok THEN Forget(v.frame) ELSE unpin_order

LRUReplacerPin(f) ==
  /\ replacer = "LRU"
  /\ UNCHANGED notRepl
  /\ UNCHANGED <<replacer, clk_frames, clk_next, clk_pc>>
  /\ lru_r' = Pin(lru_r, f)
  /\ repl_ret' = RRet("Pin", f, TRUE, lru_r, <<>>)
  /\ unpin_order' = Forget(f)

LRUReplacerUnpin(f) ==
  /\ replacer = "LRU"
  /\ UNCHANGED notRepl
  /\ UNCHANGED <<replacer, clk_frames, clk_next, clk_pc>>
  /\ lru_r' = Unpin(lru_r, f, ReplacerPages)
  /\ repl_ret' = RRet("Unpin", f, TRUE, lru_r, <<>>)
  /\ unpin_order' = IF Tracked(f) THEN unpin_order ELSE Append(unpin_order, f)

LRUReplacerSize ==
  /\ replacer = "LRU"
  /\ UNCHANGED notRepl
  /\ UNCHANGED <<replacer, lru_r, clk_frames, clk_next, clk_pc, unpin_order>>
  /\ repl_ret' = RRet("Size", LRUSize(lru_r), TRUE, lru_r, <<>>)

\* ---- the calls of the clock replacer ----
ClockReplacerVictim ==
  /\ replacer = "Clock"
  /\ AllIdle
  /\ UNCHANGED notRepl
  /\ UNCHANGED <<replacer, lru_r, clk_pc>>
  /\ LET v == ClockVictim(clk_frames, clk_next)
     IN  /\ clk_frames' = v.frames
         /\ clk_next' = v.next
         /\ repl_ret' = RRet("Victim", v.frame, v.ok, clk_frames,
                             IF v.ok THEN Append(PrevRun, v.frame) ELSE PrevRun)
         /\ unpin_order' = IF v.ok THEN Forget(v.frame) ELSE unpin_order

ClockReplacerPin(f) ==
  /\ replacer = "Clock"
  /\ MutexFree
  /\ UNCHANGED notRepl
  /\ UNCHANGED <<replacer, lru_r, clk_next, clk_pc>>
  /\ clk_frames' = ClockPin(clk_frames, f)
  /\ repl_ret' = RRet("Pin", f, TRUE, clk_frames, <<>>)
  /\ unpin_order' = Forget(f)

ClockReplacerUnpin(f) ==
  /\ replacer = "Clock"
  /\ MutexFree
  /\ UNCHANGED notRepl
  /\ UNCHANGED <<replacer, lru_r, clk_next, clk_pc>>
  /\ clk_frames' = ClockUnpin(clk_frames, f)
  /\ repl_ret' = RRet("Unpin", f, TRUE, clk_frames, <<>>)
  /\ unpin_order' = IF Tracked(f) THEN unpin_order ELSE Append(unpin_order, f)

ClockReplacerSize ==
  /\ replacer = "Clock"
  /\ MutexFree
  /\ UNCHANGED notRepl
  /\ UNCHANGED <<replacer, lru_r, clk_frames, clk_next, clk_pc, unpin_order>>
  /\ repl_ret' = RRet("Size", ClockSize(clk_frames), TRUE, clk_frames, <<>>)

\* ---- ClockReplacer::Victim called by thread t among other threads ----
\* line 27: Size() under the shared lock, which is released when it returns
VictimSize(t) ==
  /\ replacer = "Clock"
  /\ clk_pc[t] = "idle"
  /\ MutexFree
  /\ UNCHANGED notRepl
  /\ UNCHANGED <<replacer, lru_r, clk_frames, clk_next, unpin_order>>
  /\ IF ClockSize(clk_frames) = 0
     THEN /\ repl_ret' = RRet("Victim", -1, FALSE, clk_frames, PrevRun)
          /\ UNCHANGED clk_pc
     ELSE /\ clk_pc' = [clk_pc EXCEPT ![t] = "lock"]
          /\ UNCHANGED repl_ret

\* line 31: std::lock_guard on mutex_
VictimLock(t) ==
  /\ clk_pc[t] = "lock"
  /\ MutexFree
  /\ clk_pc' = [clk_pc EXCEPT ![t] = "sweep"]
  /\ UNCHANGED notRepl
  /\ UNCHANGED <<replacer, lru_r, clk_frames, clk_next, repl_ret, unpin_order>>

\* lines 33-49: one pass of while (true), the mutex held; the call returns,
\* and gives the mutex back, only from a pass that finds a slot to return
VictimSweep(t) ==
  /\ clk_pc[t] = "sweep"
  /\ UNCHANGED notRepl
  /\ UNCHANGED <<replacer, lru_r>>
  /\ LET s == SweepStep(clk_frames, clk_next)
     IN  /\ clk_frames' = s.frames
         /\ clk_next' = s.next
         /\ IF s.done
            THEN /\ clk_pc' = [clk_pc EXCEPT ![t] = "idle"]
                 /\ repl_ret' = RRet("Victim", s.frame, TRUE, clk_frames,
                                     Append(PrevRun, s.frame))
                 /\ unpin_order' = Forget(s.frame)
            ELSE UNCHANGED <<clk_pc, repl_ret, unpin_order>>

\* the constructors: the LRU list empty; every slot of the clock absent with
\* its reference bit clear (clock_replacer.cpp:19-23) and the hand on slot 0
InitReplacerOf(policy) ==
  /\ replacer = policy
  /\ lru_r = <<>>
  /\ clk_frames = [f \in ReplFrames |-> [contains |-> FALSE, ref |-> FALSE]]
  /\ clk_next = 0
  /\ clk_pc = [t \in ClockThreads |-> "idle"]
  /\ repl_ret = [op |-> "none", frame |-> -1, ok |-> TRUE, met |-> <<>>,
                 run |-> <<>>, prev |-> NoCall]
  /\ unpin_order = <<>>

\* the replacer before any call, for the specifications of the other
\* subsystems
InitReplacer == InitReplacerOf("LRU")

(***************************************************************************)
(*                               THE LOG                                   *)
(*                                                                         *)
(* Each thread runs one transaction the way StartTransaction of            *)
(* log_manager_test.cpp does: Begin, InsertTuple, MarkDelete, Commit; the  *)
(* first to need the table constructs the table heap.  Every one of these  *)
(* calls logs its record through LogManager::AppendLogRecord, and the      *)
(* flush thread started by RunFlushThread moves the log buffer to the log  *)
(* file a batch at a time.                                                 *)
(***************************************************************************)

LogThreads == 1..NumLogThreads

INVALID_LSN == -1

\* LogRecord(txn_id, prev_lsn, log_record_type): the header of a record that
\* has not been appended yet
LogRecordUnchained(txn_id, prev_lsn, log_record_type) ==
  [lsn |-> INVALID_LSN, txn_id |-> txn_id, prev_lsn |-> INVALID_LSN,
   record_type |-> log_record_type]

LogRecord(txn_id, prev_lsn, log_record_type) ==
  [lsn |-> INVALID_LSN, txn_id |-> txn_id, prev_lsn |-> prev_lsn,
   record_type |-> log_record_type]

\* LogManager::AppendLogRecord(log_record) under the latch of the log manager:
\* the record takes the lsn and goes to the end of the log buffer
AppendLogRecord(buffer, lsn, log_record) ==
  Append(buffer, [log_record EXCEPT !.lsn = lsn])

\* the transaction of thread t logs a record of the type and keeps the lsn
\* it was given as its prev_lsn; the field by, which is not part of the
\* record, remembers the thread
Logs(t, log_record_type, after) ==
  LET record == LogRecord(after.txn_id, log_txn[t].prev_lsn, log_record_type)
  IN  /\ log_buffer' = AppendLogRecord(log_buffer, next_lsn, record @@ [by |-> t])
      /\ next_lsn' = next_lsn + 1
      /\ log_txn' = [log_txn EXCEPT ![t] = [after EXCEPT !.prev_lsn = next_lsn]]
      /\ UNCHANGED <<flush_buffer, log_file>>
      /\ UNCHANGED notLog

\* TransactionManager::Begin(): the transaction takes the next id and logs
\* BEGIN
Begin(t) ==
  /\ log_txn[t].pc = "idle"
  /\ next_txn_id' = next_txn_id + 1
  /\ UNCHANGED table_created
  /\ Logs(t, "BEGIN", [log_txn[t] EXCEPT !.pc = "active", !.txn_id = next_txn_id])

\* TableHeap::TableHeap(buffer_pool_manager, lock_manager, log_manager, txn):
\* the first page of the table is logged as NEWPAGE
NewTableHeap(t) ==
  /\ log_txn[t].pc = "active"
  /\ ~table_created
  /\ table_created' = TRUE
  /\ UNCHANGED next_txn_id
  /\ Logs(t, "NEWPAGE", log_txn[t])

\* TableHeap::InsertTuple(tuple, rid, txn)
InsertTuple(t) ==
  /\ log_txn[t].pc = "active"
  /\ table_created
  /\ log_txn[t].inserted < MaxTuples
  /\ UNCHANGED <<next_txn_id, table_created>>
  /\ Logs(t, "INSERT", [log_txn[t] EXCEPT !.inserted = @ + 1])

\* TableHeap::MarkDelete(rid, txn) of a tuple the transaction has inserted
MarkDelete(t) ==
  /\ log_txn[t].pc = "active"
  /\ log_txn[t].marked < log_txn[t].inserted
  /\ UNCHANGED <<next_txn_id, table_created>>
  /\ Logs(t, "MARKDELETE", [log_txn[t] EXCEPT !.marked = @ + 1])

\* TransactionManager::Commit(txn), first part: the deletes the transaction
\* has marked are applied, one APPLYDELETE record each
CommitApplyDelete(t) ==
  /\ log_txn[t].pc \in {"active", "committing"}
  /\ log_txn[t].marked > 0
  /\ UNCHANGED <<next_txn_id, table_created>>
  /\ Logs(t, "APPLYDELETE", [log_txn[t] EXCEPT !.pc = "committing", !.marked = @ - 1])

\* TransactionManager::Commit(txn), second part: COMMIT is logged
CommitRecord(t) ==
  /\ log_txn[t].pc \in {"active", "committing"}
  /\ log_txn[t].marked = 0
  /\ UNCHANGED <<next_txn_id, table_created>>
  /\ Logs(t, "COMMIT", [log_txn[t] EXCEPT !.pc = "flushing"])

\* TransactionManager::Commit(txn) returns when the COMMIT record is in the
\* log file
CommitReturn(t) ==
  /\ log_txn[t].pc = "flushing"
  /\ \E i \in 1..Len(log_file) : log_file[i].lsn = log_txn[t].prev_lsn
  /\ log_txn' = [log_txn EXCEPT ![t].pc = "committed"]
  /\ UNCHANGED <<next_lsn, next_txn_id, log_buffer, flush_buffer, log_file, table_created>>
  /\ UNCHANGED notLog

\* the flush thread takes the log buffer: the two buffers are swapped
FlushSwap ==
  /\ flush_buffer = <<>>
  /\ log_buffer # <<>>
  /\ flush_buffer' = log_buffer
  /\ log_buffer' = <<>>
  /\ UNCHANGED <<next_lsn, next_txn_id, log_file, log_txn, table_created>>
  /\ UNCHANGED notLog

\* the flush thread writes the buffer it took at the end of the log file
\* (DiskManager::WriteLog)
FlushWrite ==
  /\ flush_buffer # <<>>
  /\ log_file' = log_file \o flush_buffer
  /\ flush_buffer' = <<>>
  /\ UNCHANGED <<next_lsn, next_txn_id, log_buffer, log_txn, table_created>>
  /\ UNCHANGED notLog

\* BustubInstance("test.db") with a log file just removed
InitLog ==
  /\ next_lsn = 0
  /\ next_txn_id = 0
  /\ log_buffer = <<>>
  /\ flush_buffer = <<>>
  /\ log_file = <<>>
  /\ log_txn = [t \in LogThreads |->
                  [pc |-> "idle", txn_id |-> -1, prev_lsn |-> INVALID_LSN,
                   inserted |-> 0, marked |-> 0]]
  /\ table_created = FALSE

(***************************************************************************)
(*                               B+TREE                                    *)
(*                                                                         *)
(* The tree is modelled over the pages it keeps in the buffer pool:        *)
(* tree_pages[p] is the content of page p wherever the pool holds it, so a *)
(* fetch always finds what the last writer left (a pool with a frame for   *)
(* every page the tree pins, every page unpinned dirty).  A page's array_  *)
(* is the sequence of its first GetSize() pairs, slot i of the code being  *)
(* element i + 1; slot 0 of an internal page keeps the key its bytes hold. *)
(* Every call is made by one thread with a transaction.                    *)
(***************************************************************************)
Keys == 1..MaxKey
Values == 1..MaxValue

\* the key held by the bytes of a page NewPage has just zeroed
ZeroKey == 0

KV(k, v) == [key |-> k, value |-> v]

\* BPlusTreeLeafPage::Init / BPlusTreeInternalPage::Init
InitPage(type, parent_id) ==
  [page_type |-> type, parent_page_id |-> parent_id, array |-> <<>>,
   next_page_id |-> INVALID_PAGE_ID]

IsLeafPage(node) == node.page_type = "LEAF_PAGE"

IsRootPage(node) == node.parent_page_id = INVALID_PAGE_ID

\* Insert of the leaf page and of the internal page: the same loop over array_
ArrayInsert(a, key, value) ==
  LET n == Len(a)
      kv == KV(key, value)
      J == {j \in 1..n : key > a[j].key}
  IN  IF n = 0 \/ key > a[n].key
      THEN Append(a, kv)
      ELSE LET shifted == IF J = {} THEN <<a[1]>> \o a
                          ELSE InsertAt(a, SetMax(J) + 1, kv)
           IN  IF key < a[1].key THEN [shifted EXCEPT ![1] = kv] ELSE shifted

LeafInsert(a, key, value) == ArrayInsert(a, key, value)

InternalInsert(a, key, value) == ArrayInsert(a, key, value)

\* the binary search of Lookup and RemoveAndDeleteRecord over slots low..high:
\* the slot holding key, -1 when the loop ends without finding it
RECURSIVE BinarySearch(_, _, _, _)
BinarySearch(a, key, low, high) ==
  IF low > high THEN -1
  ELSE LET mid == low + (high - low) \div 2
       IN  IF key > a[mid + 1].key THEN BinarySearch(a, key, mid + 1, high)
           ELSE IF key < a[mid + 1].key THEN BinarySearch(a, key, low, mid - 1)
           ELSE mid

LeafSlotOf(a, key) ==
  IF Len(a) = 0 \/ key < a[1].key \/ key > a[Len(a)].key THEN -1
  ELSE BinarySearch(a, key, 0, Len(a) - 1)

\* BPlusTreeLeafPage::Lookup: [found, value]
LeafLookup(a, key) ==
  LET i == LeafSlotOf(a, key)
  IN  IF i = -1 THEN [found |-> FALSE, value |-> 0]
      ELSE [found |-> TRUE, value |-> a[i + 1].value]

RemoveAndDeleteRecord(a, key) ==
  LET i == LeafSlotOf(a, key)
  IN  IF i = -1 THEN a ELSE RemoveAt(a, i + 1)

\* the loop of BPlusTreeInternalPage::Lookup over slots left..right
RECURSIVE InternalSearch(_, _, _, _)
InternalSearch(a, key, left, right) ==
  IF left < right /\ left + 1 # right
  THEN LET mid == left + (right - left) \div 2
       IN  IF key < a[mid + 1].key THEN InternalSearch(a, key, left, mid)
           ELSE IF key > a[mid + 1].key THEN InternalSearch(a, key, mid, right)
           ELSE a[mid + 1].value
  ELSE a[left + 1].value

\* BPlusTreeInternalPage::Lookup, called with GetSize() > 1
InternalLookup(a, key) ==
  IF key < a[2].key THEN a[1].value
  ELSE IF key >= a[Len(a)].key THEN a[Len(a)].value
  ELSE InternalSearch(a, key, 1, Len(a) - 1)

\* BPlusTreeInternalPage::ValueIndex, a slot or -1
ValueIndex(a, value) ==
  LET I == {i \in 1..Len(a) : a[i].value = value}
  IN  IF I = {} THEN -1 ELSE SetMin(I) - 1

PopulateNewRoot(old_value, new_key, new_value) ==
  <<KV(ZeroKey, old_value), KV(new_key, new_value)>>

\* BPlusTreeInternalPage::InsertNodeAfter; when old_value is in no slot the
\* loop shifts every pair up and leaves the size alone
InsertNodeAfter(a, old_value, new_key, new_value) ==
  LET I == {i \in 1..Len(a) : a[i].value = old_value}
  IN  IF I = {} THEN <<a[1]>> \o SubSeq(a, 1, Len(a) - 1)
      ELSE InsertAt(a, SetMax(I) + 1, KV(new_key, new_value))

\* the number of pairs MoveHalfTo moves
HalfAllButOne(size, mark) == size - 1

Half(size, mark) == IF mark THEN size \div 2 ELSE (size + 1) \div 2

\* the child pages named by items get parent_id as parent (CopyNFrom,
\* CopyLastFrom and CopyFirstFrom of the internal page)
Adopt(pgs, items, parent_id) ==
  [p \in DOMAIN pgs |->
     IF \E i \in 1..Len(items) : items[i].value = p
     THEN [pgs[p] EXCEPT !.parent_page_id = parent_id]
     ELSE pgs[p]]

\* recipient->CopyNFrom(items, n)
CopyNFrom(pgs, recipient, items) ==
  LET copied == [pgs EXCEPT ![recipient].array = @ \o items]
  IN  IF IsLeafPage(pgs[recipient]) THEN copied
      ELSE Adopt(copied, items, recipient)

\* node->MoveHalfTo(recipient, mark)
MoveHalfTo(pgs, node, recipient, mark) ==
  LET a == pgs[node].array
      half == Half(Len(a), mark)
      kept == [pgs EXCEPT ![node].array = SubSeq(a, 1, Len(a) - half)]
  IN  CopyNFrom(kept, recipient, SubSeq(a, Len(a) - half + 1, Len(a)))

\* a MoveAllTo that leaves the recipient's next page id alone
MoveAllToUnlinked(pgs, node, recipient, middle_key) ==
  LET a == pgs[node].array
      emptied == [pgs EXCEPT ![node].array = <<>>]
  IN  IF IsLeafPage(pgs[node]) THEN CopyNFrom(emptied, recipient, a)
      ELSE CopyNFrom(emptied, recipient, [a EXCEPT ![1].key = middle_key])

\* node->MoveAllTo(recipient, middle_key)
MoveAllTo(pgs, node, recipient, middle_key) ==
  LET a == pgs[node].array
      emptied == [pgs EXCEPT ![node].array = <<>>]
  IN  IF IsLeafPage(pgs[node])
      THEN [CopyNFrom(emptied, recipient, a)
              EXCEPT ![recipient].next_page_id = pgs[node].next_page_id]
      ELSE CopyNFrom(emptied, recipient, [a EXCEPT ![1].key = middle_key])

\* node->MoveFirstToEndOf(recipient, middle_key); the leaf page has no
\* middle_key and moves its first pair as it is
MoveFirstToEndOf(pgs, node, recipient, middle_key) ==
  LET a == pgs[node].array
      pair == IF IsLeafPage(pgs[node]) THEN a[1] ELSE KV(middle_key, a[1].value)
      removed == [pgs EXCEPT ![node].array = Tail(a)]
  IN  CopyNFrom(removed, recipient, <<pair>>)

\* node->MoveLastToFrontOf(recipient, middle_key)
MoveLastToFrontOf(pgs, node, recipient, middle_key) ==
  LET a == pgs[node].array
      pair == a[Len(a)]
      r == pgs[recipient].array
      keyed == IF IsLeafPage(pgs[node]) \/ r = <<>> THEN r
               ELSE [r EXCEPT ![1].key = middle_key]
      moved == [pgs EXCEPT ![node].array = SubSeq(a, 1, Len(a) - 1),
                           ![recipient].array = <<pair>> \o keyed]
  IN  IF IsLeafPage(pgs[node]) THEN moved ELSE Adopt(moved, <<pair>>, recipient)

\* the tree as its operations pass it along: the pages, root_page_id_, the next
\* page id, whether an assert has failed, the transaction's deleted page set
\* and the value the last CoalesceOrRedistribute or AdjustRoot returned
Tree ==
  [pages |-> tree_pages, root |-> root_page_id, next |-> tree_next_page_id,
   crashed |-> FALSE, deleted |-> {}, ret |-> FALSE]

Crash(t) == [t EXCEPT !.crashed = TRUE]

\* the loop of FindLeafPage from page p down to a leaf, with the assert of
\* Lookup and the assert on the child's parent page id
RECURSIVE Descend(_, _, _)
Descend(pgs, p, key) ==
  IF IsLeafPage(pgs[p]) THEN [crashed |-> FALSE, page |-> p]
  ELSE IF Len(pgs[p].array) <= 1 THEN [crashed |-> TRUE, page |-> p]
  ELSE LET child == InternalLookup(pgs[p].array, key)
       IN  IF pgs[child].parent_page_id # p
           THEN [crashed |-> TRUE, page |-> child]
           ELSE Descend(pgs, child, key)

\* FindLeafPage(key, false, op, transaction); page is INVALID_PAGE_ID for the
\* nullptr it returns on an empty tree
FindLeafPage(pgs, root, key) ==
  IF root = INVALID_PAGE_ID THEN [crashed |-> FALSE, page |-> INVALID_PAGE_ID]
  ELSE Descend(pgs, root, key)

\* Split(node, mark): the new page takes the id t.next
Split(t, node, mark) ==
  LET new_node == InitPage(t.pages[node].page_type, INVALID_PAGE_ID)
      allocated == [p \in DOMAIN t.pages \cup {t.next} |->
                      IF p = t.next THEN new_node ELSE t.pages[p]]
  IN  [t EXCEPT !.pages = MoveHalfTo(allocated, node, t.next, mark),
                !.next = t.next + 1]

RECURSIVE InsertIntoParent(_, _, _, _)
InsertIntoParent(t, old_node, key, new_node) ==
  IF IsRootPage(t.pages[old_node])
  THEN LET root == [InitPage("INTERNAL_PAGE", INVALID_PAGE_ID)
                      EXCEPT !.array = PopulateNewRoot(old_node, key, new_node)]
           allocated == [p \in DOMAIN t.pages \cup {t.next} |->
                           IF p = t.next THEN root ELSE t.pages[p]]
       IN  [t EXCEPT !.pages = [allocated EXCEPT ![old_node].parent_page_id = t.next,
                                                 ![new_node].parent_page_id = t.next],
                     !.root = t.next,
                     !.next = t.next + 1]
  ELSE LET internal == t.pages[old_node].parent_page_id
           a == t.pages[internal].array
       IN  IF Len(a) < InternalMaxSize
           THEN [t EXCEPT !.pages =
                   [t.pages EXCEPT ![internal].array =
                                      InsertNodeAfter(a, old_node, key, new_node),
                                   ![new_node].parent_page_id = internal]]
           ELSE LET mark == key > a[InternalMaxSize \div 2 + 1].key
                    new_internal == t.next
                    s == Split(t, internal, mark)
                    target == IF mark THEN new_internal ELSE internal
                    inserted == [s.pages EXCEPT ![target].array =
                                                  InternalInsert(@, key, new_node)]
                    key0 == inserted[new_internal].array[1].key
                    parented ==
                      IF key < key0
                      THEN [inserted EXCEPT ![new_node].parent_page_id = internal]
                      ELSE IF key = key0
                      THEN [inserted EXCEPT ![new_node].parent_page_id = new_internal]
                      ELSE [inserted EXCEPT ![new_node].parent_page_id = new_internal,
                                            ![old_node].parent_page_id = new_internal]
                IN  InsertIntoParent([s EXCEPT !.pages = parented],
                                     internal, key0, new_internal)

\* StartNewTree(key, value)
StartNewTree(t, key, value) ==
  LET root == [InitPage("LEAF_PAGE", INVALID_PAGE_ID)
                 EXCEPT !.array = LeafInsert(<<>>, key, value)]
  IN  [t EXCEPT !.pages = [p \in DOMAIN t.pages \cup {t.next} |->
                             IF p = t.next THEN root ELSE t.pages[p]],
                !.root = t.next,
                !.next = t.next + 1]

\* InsertIntoLeaf(key, value, transaction) from the leaf FindLeafPage has
\* returned (lines 130-165); ret is what it returns
InsertAtLeaf(t, leaf, key, value) ==
  LET a == t.pages[leaf].array
  IN  IF LeafLookup(a, key).found THEN [t EXCEPT !.ret = FALSE]
      ELSE IF Len(a) < leaf_max_size
      THEN [t EXCEPT !.pages[leaf].array = LeafInsert(a, key, value), !.ret = TRUE]
      ELSE LET mark == key > a[leaf_max_size \div 2 + 1].key
               new_leaf == t.next
               s == Split(t, leaf, mark)
               target == IF mark THEN new_leaf ELSE leaf
               inserted == [s.pages EXCEPT ![target].array = LeafInsert(@, key, value)]
               linked == [inserted EXCEPT
                            ![new_leaf].next_page_id = inserted[leaf].next_page_id,
                            ![leaf].next_page_id = new_leaf]
           IN  [InsertIntoParent([s EXCEPT !.pages = linked], leaf,
                                 linked[new_leaf].array[1].key, new_leaf)
                  EXCEPT !.ret = TRUE]

\* InsertIntoLeaf(key, value, transaction) on a tree that is not empty
InsertIntoLeaf(t, key, value) ==
  LET found == FindLeafPage(t.pages, t.root, key)
  IN  IF found.crashed THEN Crash(t)
      ELSE InsertAtLeaf(t, found.page, key, value)

\* an AdjustRoot that keeps a root leaf that has lost its last pair
AdjustRootKeepingLeaf(t, old_root_node) ==
  LET node == t.pages[old_root_node]
  IN  IF ~IsLeafPage(node) /\ Len(node.array) = 1
      THEN LET new_root == node.array[1].value
           IN  [t EXCEPT !.root = new_root,
                         !.pages[new_root].parent_page_id = INVALID_PAGE_ID,
                         !.ret = TRUE]
      ELSE [t EXCEPT !.ret = FALSE]

\* AdjustRoot(old_root_node)
AdjustRoot(t, old_root_node) ==
  LET node == t.pages[old_root_node]
  IN  IF IsLeafPage(node)
      THEN IF Len(node.array) = 0
           THEN [t EXCEPT !.root = INVALID_PAGE_ID, !.ret = TRUE]
           ELSE [t EXCEPT !.ret = FALSE]
      ELSE IF Len(node.array) = 1
           THEN LET new_root == node.array[1].value
                IN  [t EXCEPT !.root = new_root,
                              !.pages[new_root].parent_page_id = INVALID_PAGE_ID,
                              !.ret = TRUE]
           ELSE [t EXCEPT !.ret = FALSE]

\* Redistribute(neighbor_node, node, index)
RedistributeKeepingKey(t, neighbor_node, node, index) ==
  IF t.pages[neighbor_node].parent_page_id # t.pages[node].parent_page_id
  THEN Crash(t)
  ELSE LET parent == t.pages[node].parent_page_id
           keyed == IF index = 0 THEN neighbor_node ELSE node
           slot == ValueIndex(t.pages[parent].array, keyed)
           key == t.pages[parent].array[slot + 1].key
       IN  [t EXCEPT !.pages = IF index = 0
                               THEN MoveFirstToEndOf(t.pages, neighbor_node, node, key)
                               ELSE MoveLastToFrontOf(t.pages, neighbor_node, node, key)]

Redistribute(t, neighbor_node, node, index) ==
  IF t.pages[neighbor_node].parent_page_id # t.pages[node].parent_page_id
  THEN Crash(t)
  ELSE LET parent == t.pages[node].parent_page_id
           keyed == IF index = 0 THEN neighbor_node ELSE node
           slot == ValueIndex(t.pages[parent].array, keyed)
           key == t.pages[parent].array[slot + 1].key
           moved == IF index = 0
                    THEN MoveFirstToEndOf(t.pages, neighbor_node, node, key)
                    ELSE MoveLastToFrontOf(t.pages, neighbor_node, node, key)
       IN  [t EXCEPT !.pages = [moved EXCEPT ![parent].array[slot + 1].key =
                                               moved[keyed].array[1].key]]

\* lines 443-446 of Coalesce: node moves all its pairs to neighbor_node and the
\* parent drops the slot of node
MergeInto(pgs, neighbor_node, node, parent, index) ==
  LET a == pgs[parent].array
      moved == MoveAllTo(pgs, node, neighbor_node, a[index + 1].key)
  IN  [moved EXCEPT ![parent].array = RemoveAt(a, index + 1)]

RECURSIVE CoalesceOrRedistribute(_, _)
RECURSIVE Coalesce(_, _, _, _, _)

\* Coalesce(neighbor_node, node, parent, index, transaction)
Coalesce(t, neighbor_node, node, parent, index) ==
  IF t.pages[neighbor_node].parent_page_id # t.pages[node].parent_page_id
  THEN Crash(t)
  ELSE LET removed == MergeInto(t.pages, neighbor_node, node, parent, index)
           c == CoalesceOrRedistribute([t EXCEPT !.pages = removed], parent)
       IN  IF c.ret /\ ~c.crashed
           THEN [c EXCEPT !.deleted = @ \cup {parent}]
           ELSE c

\* CoalesceOrRedistribute(node, transaction); ret is what it returns
CoalesceOrRedistribute(t, node) ==
  LET n == t.pages[node]
      max_size == IF IsLeafPage(n) THEN leaf_max_size ELSE InternalMaxSize
  IN  IF IsRootPage(n) THEN AdjustRoot(t, node)
      ELSE IF IsLeafPage(n) /\ Len(n.array) >= (leaf_max_size + 1) \div 2
      THEN [t EXCEPT !.ret = FALSE]
      ELSE IF ~IsLeafPage(n) /\ Len(n.array) > InternalMaxSize \div 2
      THEN [t EXCEPT !.ret = FALSE]
      ELSE LET parent == n.parent_page_id
               a == t.pages[parent].array
               value_index == ValueIndex(a, node)
               sibling == IF value_index = 0 THEN a[2].value ELSE a[value_index].value
           IN  IF Len(t.pages[sibling].array) + Len(n.array) > max_size
               THEN [Redistribute(t, sibling, node, IF value_index = 0 THEN 0 ELSE 1)
                       EXCEPT !.ret = FALSE]
               ELSE IF value_index = 0
               THEN LET c == Coalesce(t, node, sibling, parent, 1)
                    IN  [c EXCEPT !.deleted = @ \cup {sibling}, !.ret = FALSE]
               ELSE [Coalesce(t, sibling, node, parent, value_index)
                       EXCEPT !.ret = TRUE]

\* the body of Remove(key, transaction) on a tree that is not empty, up to
\* UnlockUnpinPages
RemoveFromLeaf(t, key) ==
  LET found == FindLeafPage(t.pages, t.root, key)
      leaf == found.page
      a == t.pages[leaf].array
      removed == RemoveAndDeleteRecord(a, key)
  IN  IF found.crashed THEN Crash(t)
      ELSE IF Len(removed) = Len(a) THEN t
      ELSE LET c == CoalesceOrRedistribute([t EXCEPT !.pages[leaf].array = removed],
                                           leaf)
           IN  IF c.ret /\ ~c.crashed
               THEN [c EXCEPT !.deleted = @ \cup {leaf}]
               ELSE c

\* UnlockUnpinPages(op, transaction): the pages of the deleted page set go
\* back to the pool
UnlockUnpinPages(t) ==
  [t EXCEPT !.pages = [p \in DOMAIN t.pages \ t.deleted |-> t.pages[p]],
            !.deleted = {}]

TreeRet(op, ok, value) == [op |-> op, ok |-> ok, value |-> value]

\* the tree after a call
InstallTree(t) ==
  /\ UNCHANGED leaf_max_size
  /\ tree_pages' = t.pages
  /\ root_page_id' = t.root
  /\ tree_next_page_id' = t.next
  /\ tree_crashed' = t.crashed

\* Insert(key, value, transaction), side by side with the reference map.  The
\* tree copies values and never compares them, so the callers name the value
\* they store for an absent key 1 and offer any value for a key that is present.
Insert(key, value) ==
  /\ ~tree_crashed
  /\ key \in DOMAIN ref \/ value = 1
  /\ UNCHANGED notTree
  /\ LET t == IF root_page_id = INVALID_PAGE_ID
              THEN [StartNewTree(Tree, key, value) EXCEPT !.ret = TRUE]
              ELSE UnlockUnpinPages(InsertIntoLeaf(Tree, key, value))
     IN  /\ t.next <= MaxTreePageId + 1
         /\ InstallTree(t)
         /\ tree_ret' = TreeRet("Insert", t.ret, 0)
  /\ ref' = IF key \in DOMAIN ref THEN ref ELSE (key :> value) @@ ref
  /\ ref_ret' = TreeRet("Insert", key \notin DOMAIN ref, 0)

\* Remove(key, transaction), side by side with the reference map
Remove(key) ==
  /\ ~tree_crashed
  /\ UNCHANGED notTree
  /\ LET t == IF root_page_id = INVALID_PAGE_ID THEN Tree
              ELSE UnlockUnpinPages(RemoveFromLeaf(Tree, key))
     IN  InstallTree(t)
  /\ tree_ret' = TreeRet("Remove", FALSE, 0)
  /\ ref' = [k \in DOMAIN ref \ {key} |-> ref[k]]
  /\ ref_ret' = TreeRet("Remove", FALSE, 0)

\* what GetValue(key, result, transaction) can do on the tree: on an empty tree
\* FindLeafPage returns nullptr and node->GetData() is called on it, which is
\* undefined; the build either gets nullptr back and returns false or goes on
\* to read the page at that address
GetValueOutcomes(key) ==
  IF root_page_id = INVALID_PAGE_ID
  THEN {[crashed |-> FALSE, found |-> FALSE, value |-> 0],
        [crashed |-> TRUE, found |-> FALSE, value |-> 0]}
  ELSE LET found == FindLeafPage(tree_pages, root_page_id, key)
       IN  IF found.crashed
           THEN {[crashed |-> TRUE, found |-> FALSE, value |-> 0]}
           ELSE {[crashed |-> FALSE] @@ LeafLookup(tree_pages[found.page].array, key)}

GetValue(key) ==
  /\ ~tree_crashed
  /\ UNCHANGED notTree
  /\ UNCHANGED <<tree_pages, root_page_id, tree_next_page_id, leaf_max_size, ref>>
  /\ \E o \in GetValueOutcomes(key) :
        /\ tree_crashed' = o.crashed
        /\ tree_ret' = TreeRet("GetValue", o.found, o.value)
  /\ ref_ret' = IF key \in DOMAIN ref
                THEN TreeRet("GetValue", TRUE, ref[key])
                ELSE TreeRet("GetValue", FALSE, 0)

\* the tree before any call, constructed with leaf size l
InitTreePages(l) ==
  /\ leaf_max_size = l
  /\ tree_pages = <<>>
  /\ root_page_id = INVALID_PAGE_ID
  /\ tree_next_page_id = 1
  /\ tree_ret = TreeRet("none", FALSE, 0)
  /\ tree_crashed = FALSE
  /\ tree_pins = [p \in 1..MaxTreePageId |-> 0]
  /\ ref = <<>>
  /\ ref_ret = TreeRet("none", FALSE, 0)

(***************************************************************************)
(*                 B+TREE CALLED BY CONCURRENT THREADS                     *)
(*                                                                         *)
(* Each thread runs one call at a time with a transaction of its own.  A   *)
(* step of a thread runs from one point where the code may block (lockRoot,*)
(* RLatch, WLatch) to the next.  The page latches (Page::RLatch, WLatch,   *)
(* RUnlatch, WUnlatch) and lockRoot, unlockRoot and root_is_locked_ are    *)
(* declared in headers that are not among the sources.  They are modelled  *)
(* from the specification (section 4.3): a reader/writer latch per page    *)
(* and a dedicated mutex for the root.  b_plus_tree.cpp does not show      *)
(* whether root_is_locked_ is one flag of the tree or one per thread, so   *)
(* the tree is constructed either way (flag_shared).                       *)
(***************************************************************************)
TreeThreads == 1..NumTreeThreads
ConcKeys == 1..MaxConcKey
TreePageIds == 1..MaxTreePageId

ThreadPoints ==
  {"idle", "find", "latch_root", "descend", "latch_child", "cor", "latch_sibling"}

IdleThread ==
  [pc |-> "idle", op |-> "none", key |-> 0, node |-> INVALID_PAGE_ID,
   parent |-> INVALID_PAGE_ID, sibling |-> INVALID_PAGE_ID, page_set |-> {},
   deleted |-> {}, expect |-> FALSE, result |-> "none"]

\* a thread's record without the point its call has reached
Scratch(me) == [f \in DOMAIN me \ {"pc"} |-> me[f]]

\* the tree and the latches as a step of thread t passes them along
Now(t) ==
  [me |-> [pc |-> thread_pc[t]] @@ threads[t], pages |-> tree_pages, root |-> root_page_id,
   next |-> tree_next_page_id, latch |-> page_latch, root_latch |-> root_latch,
   flags |-> root_is_locked, crashed |-> FALSE, hist |-> history,
   ops |-> ops_left]

\* what the operators of the sequential tree take and give back
AsTree(e) ==
  [pages |-> e.pages, root |-> e.root, next |-> e.next, crashed |-> e.crashed,
   deleted |-> e.me.deleted, ret |-> FALSE]

FromTree(e, tr) ==
  [e EXCEPT !.pages = tr.pages, !.root = tr.root, !.next = tr.next,
            !.crashed = tr.crashed, !.me.deleted = tr.deleted]

\* the cell of root_is_locked_ thread t reads and writes
FlagCell(t) == IF flag_shared THEN 1 ELSE t

\* the pages thread u has fetched and not yet unpinned
PinnedBy(u) ==
  threads[u].page_set
    \cup (IF thread_pc[u] \in {"latch_root", "latch_child"}
          THEN {threads[u].node} ELSE {})
    \cup (IF thread_pc[u] = "latch_sibling" THEN {threads[u].sibling} ELSE {})

PinnedByOthers(t) == UNION {PinnedBy(u) : u \in TreeThreads \ {t}}

\* Page::RLatch and Page::WLatch return when the latch is free for the mode
CanRLatch(p) == page_latch[p].w = 0
CanWLatch(p) == page_latch[p].w = 0 /\ page_latch[p].r = {}

CanLatch(t, p) == IF threads[t].op = "GetValue" THEN CanRLatch(p) ELSE CanWLatch(p)

Latched(l, t, p) ==
  IF threads[t].op = "GetValue"
  THEN [l EXCEPT ![p].r = @ \cup {t}]
  ELSE [l EXCEPT ![p].w = t]

\* RUnlatch / WUnlatch of every page of t's page set
Unlatched(l, t) ==
  [p \in DOMAIN l |-> [w |-> IF l[p].w = t THEN 0 ELSE l[p].w, r |-> l[p].r \ {t}]]

\* isSafe(node, op), lines 650-666
isSafe(node, op) ==
  LET max_size == IF IsLeafPage(node) THEN leaf_max_size ELSE InternalMaxSize
      min_size == max_size \div 2
  IN  IF op = "Insert" THEN Len(node.array) < max_size
      ELSE Len(node.array) > min_size + 1

\* UnlockUnpinPages(op, transaction) called by thread t, lines 618-646: the
\* latches of the page set are released, the pages are unpinned, DeletePage is
\* called on the deleted page set (the pool refuses a page another thread has
\* pinned), and the root mutex is unlocked when root_is_locked_ is set.
\* Unlocking a mutex the thread does not own is undefined: the mutex is
\* released or the run ends.
UnlockUnpinPagesBy(t, e) ==
  LET cell == FlagCell(t)
      gone == e.me.deleted \ PinnedByOthers(t)
      base == [e EXCEPT !.latch = Unlatched(e.latch, t),
                        !.pages = [p \in DOMAIN e.pages \ gone |-> e.pages[p]],
                        !.me.page_set = {},
                        !.me.deleted = {}]
      cleared == [base EXCEPT !.flags[cell] = FALSE]
  IN  IF ~e.flags[cell] THEN {base}
      ELSE IF e.root_latch = t THEN {[cleared EXCEPT !.root_latch = 0]}
      ELSE {[cleared EXCEPT !.root_latch = 0], [cleared EXCEPT !.crashed = TRUE]}

\* the call of thread t returns result
Returned(e, result) ==
  [e EXCEPT !.me.pc = "idle", !.me.result = result,
            !.me.node = INVALID_PAGE_ID, !.me.parent = INVALID_PAGE_ID,
            !.me.sibling = INVALID_PAGE_ID]

\* the state after a step of thread t
InstallStep(t, e) ==
  /\ UNCHANGED <<lmvars, bpmvars, replvars, pinvars, logvars, graphvars, hashvars, leaf_max_size, tree_ret, ref, ref_ret, flag_shared>>
  /\ tree_crashed' = e.crashed
  /\ IF e.crashed
     THEN UNCHANGED <<thread_pc, threads, tree_pages, root_page_id, tree_next_page_id,
                      page_latch, root_latch, root_is_locked, history, ops_left>>
     ELSE /\ e.next <= MaxTreePageId + 1
          /\ thread_pc' = [thread_pc EXCEPT ![t] = e.me.pc]
          /\ threads' = [threads EXCEPT ![t] = Scratch(e.me)]
          /\ tree_pages' = e.pages
          /\ root_page_id' = e.root
          /\ tree_next_page_id' = e.next
          /\ page_latch' = e.latch
          /\ root_latch' = e.root_latch
          /\ root_is_locked' = e.flags
          /\ history' = e.hist
          /\ ops_left' = e.ops

\* a thread with no call running makes the next call
Called(t, op, key) ==
  [Now(t) EXCEPT !.me = [IdleThread EXCEPT !.op = op, !.key = key],
                 !.ops = @ - 1]

CanCallTree(t) == ~tree_crashed /\ thread_pc[t] = "idle" /\ ops_left > 0

\* GetValue(key, result, transaction) up to the FetchPage of the root in
\* FindLeafPage, lines 44-47 and 676-690: a READONLY call takes no root lock.
\* On an empty tree FindLeafPage returns nullptr and node->GetData() is
\* undefined: the call returns false or the run ends.
BeginGetValue(t, key) ==
  /\ CanCallTree(t)
  /\ LET e == [Called(t, "GetValue", key)
                 EXCEPT !.me.expect = key \in history.done /\ key \notin history.removing]
     IN  IF root_page_id = INVALID_PAGE_ID
         THEN \E o \in {Returned(e, "missing"), [e EXCEPT !.crashed = TRUE]} :
                 InstallStep(t, o)
         ELSE InstallStep(t, [e EXCEPT !.me.pc = "latch_root", !.me.node = root_page_id])

\* Insert(key, value, transaction), lines 79-92: under mutex_ an empty tree is
\* started with the pair; otherwise the call goes on to InsertIntoLeaf
BeginInsert(t, key) ==
  /\ CanCallTree(t)
  /\ LET e == [Called(t, "Insert", key) EXCEPT !.hist.started = @ \cup {key}]
     IN  IF root_page_id = INVALID_PAGE_ID
         THEN InstallStep(t, Returned([FromTree(e, StartNewTree(AsTree(e), key, 1))
                                         EXCEPT !.hist.done = @ \cup {key}], "true"))
         ELSE InstallStep(t, [e EXCEPT !.me.pc = "find"])

\* Remove(key, transaction), lines 297-300: returns at once on an empty tree
BeginRemove(t, key) ==
  /\ CanCallTree(t)
  /\ LET e == [Called(t, "Remove", key) EXCEPT !.hist.removing = @ \cup {key}]
     IN  IF root_page_id = INVALID_PAGE_ID
         THEN InstallStep(t, Returned(e, "none"))
         ELSE InstallStep(t, [e EXCEPT !.me.pc = "find"])

\* FindLeafPage of an INSERT or DELETE call, lines 678-690: lockRoot(),
\* root_is_locked_ = true, then the empty-tree check and the FetchPage of the
\* root.  On an empty tree it returns nullptr with the root mutex locked;
\* InsertIntoLeaf (lines 125-129) and Remove (lines 303-306) call GetData() on
\* it, which is undefined, and return without UnlockUnpinPages when they get
\* nullptr back.
LockRoot(t) ==
  /\ ~tree_crashed
  /\ thread_pc[t] = "find"
  /\ root_latch = 0
  /\ LET e == [Now(t) EXCEPT !.root_latch = t, !.flags[FlagCell(t)] = TRUE]
     IN  IF root_page_id = INVALID_PAGE_ID
         THEN \E o \in {Returned(e, IF threads[t].op = "Insert" THEN "false" ELSE "none"),
                        [e EXCEPT !.crashed = TRUE]} :
                 InstallStep(t, o)
         ELSE InstallStep(t, [e EXCEPT !.me.pc = "latch_root", !.me.node = root_page_id])

\* FindLeafPage, lines 691-701: the latch on the page fetched as the root
LatchRoot(t) ==
  /\ ~tree_crashed
  /\ thread_pc[t] = "latch_root"
  /\ CanLatch(t, threads[t].node)
  /\ InstallStep(t, [Now(t) EXCEPT !.latch = Latched(@, t, threads[t].node),
                                   !.me.page_set = {threads[t].node},
                                   !.me.pc = "descend"])

\* FindLeafPage, lines 704-719: Lookup in the internal page (its assert needs
\* GetSize() > 1) and the FetchPage of the child
StepToChild(t) ==
  /\ ~tree_crashed
  /\ thread_pc[t] = "descend"
  /\ ~IsLeafPage(tree_pages[threads[t].node])
  /\ LET e == Now(t)
         a == tree_pages[threads[t].node].array
     IN  IF Len(a) <= 1 THEN InstallStep(t, [e EXCEPT !.crashed = TRUE])
         ELSE LET child == InternalLookup(a, threads[t].key)
              IN  IF child \notin DOMAIN tree_pages
                  THEN InstallStep(t, [e EXCEPT !.crashed = TRUE])
                  ELSE InstallStep(t, [e EXCEPT !.me.parent = threads[t].node,
                                                !.me.node = child,
                                                !.me.pc = "latch_child"])

\* FindLeafPage, lines 721-746: the latch on the child; a READONLY call then
\* releases what it holds, another call does so when the child is safe; the
\* assert on the child's parent page id; the child joins the page set
LatchChild(t) ==
  /\ ~tree_crashed
  /\ thread_pc[t] = "latch_child"
  /\ CanLatch(t, threads[t].node)
  /\ LET child == threads[t].node
         e == Now(t)
         release == threads[t].op = "GetValue"
                      \/ isSafe(tree_pages[child], threads[t].op)
     IN  \E o \in (IF release THEN UnlockUnpinPagesBy(t, e) ELSE {e}) :
            IF tree_pages[child].parent_page_id # threads[t].parent
            THEN InstallStep(t, [o EXCEPT !.crashed = TRUE])
            ELSE InstallStep(t, [o EXCEPT !.latch = Latched(@, t, child),
                                          !.me.page_set = @ \cup {child},
                                          !.me.pc = "descend"])

\* GetValue at the leaf, lines 49-65: Lookup, then UnlockUnpinPages
LeafGetValue(t) ==
  /\ ~tree_crashed
  /\ thread_pc[t] = "descend"
  /\ threads[t].op = "GetValue"
  /\ IsLeafPage(tree_pages[threads[t].node])
  /\ LET found == LeafLookup(tree_pages[threads[t].node].array, threads[t].key).found
     IN  \E o \in UnlockUnpinPagesBy(t, Now(t)) :
            InstallStep(t, Returned(o, IF found THEN "found" ELSE "missing"))

\* InsertIntoLeaf at the leaf, lines 130-165, then UnlockUnpinPages: the call
\* takes no further latch
LeafInsertPair(t) ==
  /\ ~tree_crashed
  /\ thread_pc[t] = "descend"
  /\ threads[t].op = "Insert"
  /\ IsLeafPage(tree_pages[threads[t].node])
  /\ LET e == Now(t)
         tr == InsertAtLeaf(AsTree(e), threads[t].node, threads[t].key, 1)
         after == IF tr.ret THEN [FromTree(e, tr) EXCEPT !.hist.done = @ \cup {threads[t].key}]
                  ELSE FromTree(e, tr)
     IN  \E o \in UnlockUnpinPagesBy(t, after) :
            InstallStep(t, Returned(o, IF tr.ret THEN "true" ELSE "false"))

\* Remove at the leaf, lines 306-317: RemoveAndDeleteRecord; when the size
\* has changed CoalesceOrRedistribute follows
LeafRemovePair(t) ==
  /\ ~tree_crashed
  /\ thread_pc[t] = "descend"
  /\ threads[t].op = "Remove"
  /\ IsLeafPage(tree_pages[threads[t].node])
  /\ LET e == Now(t)
         leaf == threads[t].node
         a == tree_pages[leaf].array
         removed == RemoveAndDeleteRecord(a, threads[t].key)
     IN  IF Len(removed) = Len(a)
         THEN \E o \in UnlockUnpinPagesBy(t, e) : InstallStep(t, Returned(o, "none"))
         ELSE InstallStep(t, [e EXCEPT !.pages[leaf].array = removed, !.me.pc = "cor"])

\* the sibling CoalesceOrRedistribute picks for node, lines 357-366
SiblingOf(pgs, node) ==
  LET a == pgs[pgs[node].parent_page_id].array
      value_index == ValueIndex(a, node)
  IN  IF value_index = 0 THEN a[2].value ELSE a[value_index].value

\* CoalesceOrRedistribute(node, transaction) up to the latch on the sibling,
\* lines 328-371.  When it returns true its caller puts node into the deleted
\* page set (lines 310-314 and 447-449).
CoalesceOrRedistributeNode(t) ==
  /\ ~tree_crashed
  /\ thread_pc[t] = "cor"
  /\ LET e == Now(t)
         node == threads[t].node
         n == tree_pages[node]
     IN  IF IsRootPage(n)
         THEN LET tr == AdjustRoot(AsTree(e), node)
                  after == IF tr.ret THEN [FromTree(e, tr) EXCEPT !.me.deleted = @ \cup {node}]
                           ELSE FromTree(e, tr)
              IN  \E o \in UnlockUnpinPagesBy(t, after) : InstallStep(t, Returned(o, "none"))
         ELSE IF \/ IsLeafPage(n) /\ Len(n.array) >= (leaf_max_size + 1) \div 2
                 \/ ~IsLeafPage(n) /\ Len(n.array) > InternalMaxSize \div 2
         THEN \E o \in UnlockUnpinPagesBy(t, e) : InstallStep(t, Returned(o, "none"))
         ELSE IF ValueIndex(tree_pages[n.parent_page_id].array, node) = -1
                   \/ SiblingOf(tree_pages, node) \notin DOMAIN tree_pages
         THEN InstallStep(t, [e EXCEPT !.crashed = TRUE])
         ELSE InstallStep(t, [e EXCEPT !.me.sibling = SiblingOf(tree_pages, node),
                                       !.me.pc = "latch_sibling"])

\* CoalesceOrRedistribute from the latch on the sibling, lines 373-419, with
\* the body of Coalesce up to its call of CoalesceOrRedistribute on the parent
\* (lines 436-446)
LatchSibling(t) ==
  /\ ~tree_crashed
  /\ thread_pc[t] = "latch_sibling"
  /\ CanWLatch(threads[t].sibling)
  /\ LET node == threads[t].node
         sibling == threads[t].sibling
         n == tree_pages[node]
         parent == n.parent_page_id
         value_index == ValueIndex(tree_pages[parent].array, node)
         max_size == IF IsLeafPage(n) THEN leaf_max_size ELSE InternalMaxSize
         e == [Now(t) EXCEPT !.latch = Latched(@, t, sibling),
                             !.me.page_set = @ \cup {sibling}]
     IN  IF Len(tree_pages[sibling].array) + Len(n.array) > max_size
         THEN LET tr == Redistribute(AsTree(e), sibling, node,
                                     IF value_index = 0 THEN 0 ELSE 1)
              IN  \E o \in UnlockUnpinPagesBy(t, FromTree(e, tr)) :
                     InstallStep(t, Returned(o, "none"))
         ELSE IF tree_pages[sibling].parent_page_id # n.parent_page_id
         THEN InstallStep(t, [e EXCEPT !.crashed = TRUE])
         ELSE IF value_index = 0
         THEN InstallStep(t, [e EXCEPT !.pages = MergeInto(@, node, sibling, parent, 1),
                                       !.me.deleted = @ \cup {sibling},
                                       !.me.node = parent,
                                       !.me.sibling = INVALID_PAGE_ID,
                                       !.me.pc = "cor"])
         ELSE InstallStep(t, [e EXCEPT !.pages = MergeInto(@, sibling, node, parent, value_index),
                                       !.me.deleted = @ \cup {node},
                                       !.me.node = parent,
                                       !.me.sibling = INVALID_PAGE_ID,
                                       !.me.pc = "cor"])

\* the steps of a call that is under way
Continue(t) ==
  \/ LockRoot(t)
  \/ LatchRoot(t)
  \/ StepToChild(t)
  \/ LatchChild(t)
  \/ LeafGetValue(t)
  \/ LeafInsertPair(t)
  \/ LeafRemovePair(t)
  \/ CoalesceOrRedistributeNode(t)
  \/ LatchSibling(t)

InitLatching(shared) ==
  /\ thread_pc = [t \in TreeThreads |-> "idle"]
  /\ threads = [t \in TreeThreads |-> Scratch(IdleThread)]
  /\ page_latch = [p \in TreePageIds |-> [w |-> 0, r |-> {}]]
  /\ root_latch = 0
  /\ root_is_locked = [t \in TreeThreads |-> FALSE]
  /\ flag_shared = shared
  /\ history = [started |-> {}, done |-> {}, removing |-> {}]

\* one thread calls the tree
InitTreeOf(l) ==
  /\ InitTreePages(l)
  /\ InitLatching(FALSE)
  /\ ops_left = 0

\* the smallest tree, for the specifications of the other subsystems
InitTree == InitTreeOf(2)

(***************************************************************************)
(*                 THE PINS AND LATCHES OF GetValue                        *)
(*                                                                         *)
(* One thread calls GetValue with a transaction or with nullptr.  The pool *)
(* has a frame for every page of the tree, so FetchPage never returns      *)
(* nullptr: a fetch adds one to the page's pin count and UnpinPage takes   *)
(* one away.                                                               *)
(***************************************************************************)

PinKeys == 1..MaxPinKey

\* the thread that makes the calls
Caller == CHOOSE t \in TreeThreads : \A u \in TreeThreads : t <= u

\* FetchPage(p) and UnpinPage(p, is_dirty) as the tree's pages see them
Fetched(pins, p) == [pins EXCEPT ![p] = @ + 1]
Unpinned(pins, p) == [pins EXCEPT ![p] = IF @ > 0 THEN @ - 1 ELSE 0]

\* Page::RLatch and Page::RUnlatch by the caller
RLatched(latch, p) == [latch EXCEPT ![p].r = @ \cup {Caller}]
RUnlatched(latch, p) == [latch EXCEPT ![p].r = @ \ {Caller}]

\* UnlockUnpinPages(READONLY, transaction), lines 618-646: nothing is done
\* for nullptr; with a transaction every page of its page set is unlatched
\* and unpinned and the set is cleared.  The deleted page set of a GetValue
\* is empty and no call made here leaves root_is_locked_ set.
ReadUnlockUnpinPages(w, transaction) ==
  IF ~transaction THEN w
  ELSE [w EXCEPT
          !.pins = [p \in DOMAIN w.pins |->
                      IF p \in w.page_set THEN Unpinned(w.pins, p)[p] ELSE w.pins[p]],
          !.latch = [p \in DOMAIN w.latch |->
                       IF p \in w.page_set THEN RUnlatched(w.latch, p)[p] ELSE w.latch[p]],
          !.page_set = {}]

\* the loop of FindLeafPage(key, false, READONLY, transaction), lines 707-748,
\* from the page w.page: the child is fetched and latched, the page set is
\* released, and then the child joins the page set of the transaction, or,
\* for nullptr, the parent is unlatched and unpinned
RECURSIVE ReadDescend(_, _, _)
ReadDescend(w, transaction, key) ==
  LET node == tree_pages[w.page]
  IN  IF IsLeafPage(node) THEN w
      ELSE IF Len(node.array) <= 1 THEN [w EXCEPT !.crashed = TRUE]
      ELSE LET child == InternalLookup(node.array, key)
               fetched == [w EXCEPT !.pins = Fetched(@, child),
                                    !.latch = RLatched(@, child)]
               released == ReadUnlockUnpinPages(fetched, transaction)
           IN  IF tree_pages[child].parent_page_id # w.page
               THEN [released EXCEPT !.crashed = TRUE]
               ELSE IF transaction
               THEN ReadDescend([released EXCEPT !.page_set = @ \cup {child},
                                                 !.page = child],
                                transaction, key)
               ELSE ReadDescend([released EXCEPT !.latch = RUnlatched(@, w.page),
                                                 !.pins = Unpinned(@, w.page),
                                                 !.page = child],
                                transaction, key)

\* FindLeafPage(key, false, READONLY, transaction) on a tree with a root,
\* lines 689-749: the root is fetched, latched and saved in the page set of
\* the transaction
ReadFindLeafPage(key, transaction) ==
  ReadDescend([pins |-> Fetched(tree_pins, root_page_id),
               latch |-> RLatched(page_latch, root_page_id),
               page_set |-> IF transaction THEN {root_page_id} ELSE {},
               crashed |-> FALSE,
               page |-> root_page_id],
              transaction, key)

\* GetValue(key, result, transaction), lines 44-66, with its fetches, unpins
\* and latches; transaction is FALSE for nullptr.  After UnlockUnpinPages a
\* call with nullptr fetches the leaf once more, unlatches it and unpins it
\* once.
GetValuePinning(key, transaction) ==
  /\ ~tree_crashed
  /\ \A p \in DOMAIN tree_pages : tree_pins[p] < MaxTreePin
  /\ UNCHANGED <<lmvars, bpmvars, replvars, logvars, graphvars, hashvars>>
  /\ UNCHANGED <<tree_pages, root_page_id, tree_next_page_id, leaf_max_size, ref>>
  /\ UNCHANGED <<thread_pc, threads, root_latch, root_is_locked, flag_shared, history,
                 ops_left>>
  /\ IF root_page_id = INVALID_PAGE_ID
     THEN /\ \E o \in GetValueOutcomes(key) :
                /\ tree_crashed' = o.crashed
                /\ tree_ret' = TreeRet("GetValue", o.found, o.value)
          /\ UNCHANGED <<tree_pins, page_latch>>
     ELSE LET leaf == ReadFindLeafPage(key, transaction)
              released == ReadUnlockUnpinPages(leaf, transaction)
              done == IF transaction THEN released
                      ELSE [released EXCEPT
                              !.pins = Unpinned(Fetched(@, leaf.page), leaf.page),
                              !.latch = RUnlatched(@, leaf.page)]
              found == LeafLookup(tree_pages[leaf.page].array, key)
          IN  IF leaf.crashed
              THEN /\ tree_crashed' = TRUE
                   /\ tree_ret' = TreeRet("GetValue", FALSE, 0)
                   /\ UNCHANGED <<tree_pins, page_latch>>
              ELSE /\ tree_crashed' = FALSE
                   /\ tree_ret' = TreeRet("GetValue", found.found, found.value)
                   /\ tree_pins' = done.pins
                   /\ page_latch' = done.latch
  /\ ref_ret' = IF key \in DOMAIN ref
                THEN TreeRet("GetValue", TRUE, ref[key])
                ELSE TreeRet("GetValue", FALSE, 0)

(***************************************************************************)
(*                       EXTENDIBLE HASH TABLE                             *)
(* The table as one thread calls it.  A table is the record                *)
(*   [global_depth, local_depths, bucket_page_ids, bucket_pages,           *)
(*    next_page_id, aborted]                                               *)
(* of the directory page, the bucket pages, the page id the buffer pool    *)
(* hands out next and whether an assert of the table has failed.  The      *)
(* pair stored with a key is left out: every key comes with one value.     *)
(* The directory page (hash_table_directory_page.cpp) and the hash         *)
(* function are not among the sources: a key stands for its own 32-bit     *)
(* hash, and the directory is the one the table's code relies on, with     *)
(* 2^global_depth slots in use and the lower half copied to the upper      *)
(* half when it grows.                                                     *)
(***************************************************************************)
HashKeys == 0..MaxHashKey
DirectorySlots == 0..(2^MaxBucketDepth - 1)
BucketSlots == 1..BucketArraySize

Hash(key) == key

\* the masks are 2^depth - 1, and x & (2^depth - 1) is x % 2^depth
GetGlobalDepthMask(h) == 2^h.global_depth - 1

Size(h) == 2^h.global_depth

GetLocalDepthMask(h, bucket_idx) == 2^h.local_depths[bucket_idx] - 1

\* the slot that differs from bucket_idx in the highest bit of its local depth
GetSplitImageIndex(h, bucket_idx) ==
  LET local_depth == h.local_depths[bucket_idx]
      bit == 2^(local_depth - 1)
  IN  IF local_depth = 0 THEN bucket_idx
      ELSE IF (bucket_idx \div bit) % 2 = 0 THEN bucket_idx + bit ELSE bucket_idx - bit

IncrGlobalDepth(h) ==
  LET size == Size(h)
      Src(i) == IF i \in size..(2 * size - 1) THEN i - size ELSE i
  IN  [h EXCEPT !.global_depth = @ + 1,
                !.local_depths = [i \in DirectorySlots |-> h.local_depths[Src(i)]],
                !.bucket_page_ids = [i \in DirectorySlots |-> h.bucket_page_ids[Src(i)]]]

CanShrink(h) ==
  /\ h.global_depth > 0
  /\ \A i \in 0..(Size(h) - 1) : h.local_depths[i] # h.global_depth

RECURSIVE Shrink(_)
\* while (dir_page->CanShrink()) dir_page->DecrGlobalDepth()
Shrink(h) ==
  IF CanShrink(h) THEN Shrink([h EXCEPT !.global_depth = @ - 1]) ELSE h

\* Hash(key) & dir_page->GetGlobalDepthMask()
KeyToDirectoryIndex(h, key) == Hash(key) % (GetGlobalDepthMask(h) + 1)

KeyToPageId(h, key) == h.bucket_page_ids[KeyToDirectoryIndex(h, key)]

\* ---- the bucket page: slot -> [readable, key] ----
EmptySlot == [readable |-> FALSE, key |-> 0]

\* a page as NewPage gives it, and as Clear leaves it: all bytes zero
BucketClear == [i \in BucketSlots |-> EmptySlot]

BucketIsFull(b) == \A i \in BucketSlots : b[i].readable

\* IsEmpty looks at readable_[0] only, the bits of the first eight slots
BucketIsEmpty(b) == \A i \in BucketSlots : i <= 8 => ~b[i].readable

\* the pair is refused when the bucket has it or has no free slot; it goes
\* to the first slot that is not readable
BucketInsert(b, key) ==
  IF \E i \in BucketSlots : b[i].readable /\ b[i].key = key
  THEN [ok |-> FALSE, bucket |-> b]
  ELSE IF \A i \in BucketSlots : b[i].readable
  THEN [ok |-> FALSE, bucket |-> b]
  ELSE LET free_slot == SetMin({i \in BucketSlots : ~b[i].readable})
       IN  [ok |-> TRUE,
            bucket |-> [b EXCEPT ![free_slot] = [readable |-> TRUE, key |-> key]]]

\* RemoveAt clears the readable bit of the first slot holding the pair
BucketRemove(b, key) ==
  IF \E i \in BucketSlots : b[i].readable /\ b[i].key = key
  THEN LET i == SetMin({j \in BucketSlots : b[j].readable /\ b[j].key = key})
       IN  [ok |-> TRUE, bucket |-> [b EXCEPT ![i].readable = FALSE]]
  ELSE [ok |-> FALSE, bucket |-> b]

GetKeyValueCopy(b) ==
  LET IsReadable(slot) == slot.readable
      copy == SelectSeq(b, IsReadable)
  IN  [i \in 1..Len(copy) |-> copy[i].key]

\* ---- the table ----
HashOut(h, ok) == [table |-> h, ok |-> ok]

\* an assert of the table fails
HashAbort(h) == HashOut([h EXCEPT !.aborted = TRUE], FALSE)

\* the two loops of lines 200-207 (and of lines 209-216): from bucket_index
\* down in steps of diff while i >= diff, and from bucket_index up while
\* i < Size(); each slot they visit gets the page id and the local depth of
\* slot bucket_index
SetEveryDiff(h, bucket_index, diff, page_id) ==
  LET local_depth == h.local_depths[bucket_index]
      Visited(i) ==
        /\ i < Size(h)
        /\ \/ i <= bucket_index /\ i >= diff /\ (bucket_index - i) % diff = 0
           \/ i >= bucket_index /\ (i - bucket_index) % diff = 0
  IN  [h EXCEPT
         !.bucket_page_ids = [i \in DirectorySlots |-> IF Visited(i) THEN page_id ELSE @[i]],
         !.local_depths = [i \in DirectorySlots |-> IF Visited(i) THEN local_depth ELSE @[i]]]

RECURSIVE RedistributeKeys(_, _, _, _, _)
\* lines 219-230: the pairs copied out of the zero bucket go to the bucket the
\* directory gives for their hash under the local depth mask of the zero slot
RedistributeKeys(h, key_value_copy, mask, zero_bucket_page_id, one_bucket_page_id) ==
  IF key_value_copy = <<>> THEN h
  ELSE LET tmp == Head(key_value_copy)
           target_bucket_page_id == h.bucket_page_ids[Hash(tmp) % (mask + 1)]
       IN  IF target_bucket_page_id \notin {zero_bucket_page_id, one_bucket_page_id}
           THEN [h EXCEPT !.aborted = TRUE]
           ELSE LET r == BucketInsert(h.bucket_pages[target_bucket_page_id], tmp)
                IN  IF ~r.ok THEN [h EXCEPT !.aborted = TRUE]
                    ELSE RedistributeKeys(
                           [h EXCEPT !.bucket_pages[target_bucket_page_id] = r.bucket],
                           Tail(key_value_copy), mask,
                           zero_bucket_page_id, one_bucket_page_id)

\* lines 152-238 of SplitInsert: the split itself, before the re-insert
SplitBucket(h, key) ==
  LET zero_bucket_index == KeyToDirectoryIndex(h, key)
      zero_local_depth == h.local_depths[zero_bucket_index]
      h1 == IF zero_local_depth = h.global_depth THEN IncrGlobalDepth(h) ELSE h
      zero_bucket_page_id == KeyToPageId(h1, key)
      key_value_copy == GetKeyValueCopy(h1.bucket_pages[zero_bucket_page_id])
      one_bucket_page_id == h1.next_page_id
      h2 == [h1 EXCEPT !.bucket_pages =
                          [p \in DOMAIN @ \cup {one_bucket_page_id} |->
                              IF p \in {zero_bucket_page_id, one_bucket_page_id}
                              THEN BucketClear ELSE @[p]],
                       !.next_page_id = @ + 1,
                       !.local_depths[zero_bucket_index] = @ + 1]
      one_bucket_index == GetSplitImageIndex(h2, zero_bucket_index)
      h3 == [h2 EXCEPT !.local_depths[one_bucket_index] = h2.local_depths[zero_bucket_index],
                       !.bucket_page_ids[one_bucket_index] = one_bucket_page_id]
      diff == 2^h3.local_depths[zero_bucket_index]
      h4 == SetEveryDiff(h3, zero_bucket_index, diff, zero_bucket_page_id)
      h5 == SetEveryDiff(h4, one_bucket_index, diff, one_bucket_page_id)
  IN  IF zero_bucket_page_id \notin DOMAIN h1.bucket_pages
      THEN [h1 EXCEPT !.aborted = TRUE]
      ELSE RedistributeKeys(h5, key_value_copy, GetLocalDepthMask(h5, zero_bucket_index),
                            zero_bucket_page_id, one_bucket_page_id)

RECURSIVE HashTableInsert(_, _)
\* Insert, with SplitInsert and the Insert it ends with
HashTableInsert(h, key) ==
  LET bucket_page_id == KeyToPageId(h, key)
  IN  IF bucket_page_id \notin DOMAIN h.bucket_pages THEN HashAbort(h)
      ELSE LET bucket == h.bucket_pages[bucket_page_id]
           IN  IF ~BucketIsFull(bucket)
               THEN LET r == BucketInsert(bucket, key)
                    IN  HashOut([h EXCEPT !.bucket_pages[bucket_page_id] = r.bucket], r.ok)
               ELSE \* SplitInsert
                    IF h.local_depths[KeyToDirectoryIndex(h, key)] >= MaxBucketDepth
                    THEN HashOut(h, FALSE)
                    ELSE LET h1 == SplitBucket(h, key)
                         IN  IF h1.aborted THEN HashOut(h1, FALSE)
                             ELSE HashTableInsert(h1, key)

Merge(h, target_bucket_index) ==
  LET target_bucket_page_id == h.bucket_page_ids[target_bucket_index]
      image_bucket_index == GetSplitImageIndex(h, target_bucket_index)
      local_depth == h.local_depths[target_bucket_index]
      image_bucket_page_id == h.bucket_page_ids[image_bucket_index]
      h1 == [h EXCEPT !.bucket_pages = [p \in DOMAIN @ \ {target_bucket_page_id} |-> @[p]],
                      !.bucket_page_ids[target_bucket_index] = image_bucket_page_id,
                      !.local_depths[target_bucket_index] = @ - 1]
      h2 == [h1 EXCEPT !.local_depths[image_bucket_index] = @ - 1]
      merged == h2.local_depths[target_bucket_index]
      h3 == [h2 EXCEPT
               !.bucket_page_ids =
                  [i \in DirectorySlots |->
                     IF i < Size(h2) /\ @[i] \in {target_bucket_page_id, image_bucket_page_id}
                     THEN image_bucket_page_id ELSE @[i]],
               !.local_depths =
                  [i \in DirectorySlots |->
                     IF /\ i < Size(h2)
                        /\ h2.bucket_page_ids[i] \in {target_bucket_page_id, image_bucket_page_id}
                     THEN merged ELSE @[i]]]
  IN  IF target_bucket_index >= Size(h) THEN h
      ELSE IF local_depth = 0 THEN h
      ELSE IF local_depth # h.local_depths[image_bucket_index] THEN h
      ELSE IF target_bucket_page_id \notin DOMAIN h.bucket_pages THEN [h EXCEPT !.aborted = TRUE]
      ELSE IF ~BucketIsEmpty(h.bucket_pages[target_bucket_page_id]) THEN h
      ELSE IF h2.local_depths[target_bucket_index] # h2.local_depths[image_bucket_index]
      THEN [h2 EXCEPT !.aborted = TRUE]
      ELSE Shrink(h3)

HashTableRemove(h, key) ==
  LET bucket_page_id == KeyToPageId(h, key)
      bucket_index == KeyToDirectoryIndex(h, key)
  IN  IF bucket_page_id \notin DOMAIN h.bucket_pages THEN HashAbort(h)
      ELSE LET r  == BucketRemove(h.bucket_pages[bucket_page_id], key)
               h1 == [h EXCEPT !.bucket_pages[bucket_page_id] = r.bucket]
           IN  IF BucketIsEmpty(r.bucket)
               THEN HashOut(Merge(h1, bucket_index), r.ok)
               ELSE HashOut(h1, r.ok)

\* the table the variables hold
Table ==
  [global_depth |-> global_depth, local_depths |-> local_depths,
   bucket_page_ids |-> bucket_page_ids, bucket_pages |-> bucket_pages,
   next_page_id |-> hash_next_page_id, aborted |-> hash_ret.aborted]

InstallTable(op, key, out) ==
  /\ global_depth' = out.table.global_depth
  /\ local_depths' = out.table.local_depths
  /\ bucket_page_ids' = out.table.bucket_page_ids
  /\ bucket_pages' = out.table.bucket_pages
  /\ hash_next_page_id' = out.table.next_page_id
  /\ hash_ret' = [op |-> op, key |-> key, ok |-> out.ok, aborted |-> out.table.aborted]
  /\ hash_ops' = hash_ops - 1
  /\ UNCHANGED notHash

CanCallTable == hash_ops > 0 /\ ~hash_ret.aborted

HashInsert(key) == CanCallTable /\ InstallTable("Insert", key, HashTableInsert(Table, key))

HashRemove(key) == CanCallTable /\ InstallTable("Remove", key, HashTableRemove(Table, key))

\* the table after the first FetchDirectoryPage (lines 65-79): the directory
\* is page 0, bucket page 1 is in slot 0, and the rest of the directory page
\* is zero
InitHashTable(ops) ==
  /\ global_depth = 0
  /\ local_depths = [i \in DirectorySlots |-> 0]
  /\ bucket_page_ids = [i \in DirectorySlots |-> IF i = 0 THEN 1 ELSE 0]
  /\ bucket_pages = [p \in {1} |-> BucketClear]
  /\ hash_next_page_id = 2
  /\ hash_ret = [op |-> "none", key |-> 0, ok |-> TRUE, aborted |-> FALSE]
  /\ hash_ops = ops

InitHash == InitHashTable(0)

(***************************************************************************)
(*                            LOCK MANAGER                                 *)
(***************************************************************************)
NoWait == [op |-> "none", rid |-> 0, idx |-> 0, notified |-> FALSE]

LockRequest(t, mode) == [txn_id |-> t, lock_mode |-> mode, granted |-> FALSE]

\* LockManager::IsLockCompatible(queue, request) is declared in
\* concurrency/lock_manager.h, which is not among the sources; it is modelled
\* from the specification (sections 4.4 and 5): requests of one RID are granted
\* in queue order subject to compatibility, SHARED being compatible with SHARED
\* only.  The request at position i is grantable iff every request ahead of it
\* has been granted and is compatible with it.  upgrading_ is a bare boolean in
\* lock_manager.cpp (lines 118, 123, 149) that does not record who set it, so it
\* takes no part in the test.
IsLockCompatible(q, i) ==
  \A j \in 1..(i - 1) :
     /\ q[j].granted
     /\ q[j].lock_mode # "EXCLUSIVE"
     /\ q[i].lock_mode # "EXCLUSIVE"

\* no thread is told to re-evaluate its predicate
NotifyNone(w, rset) == w

\* cv_.notify_all() on the queues of the rids in rset: every thread blocked in
\* cv_.wait on one of them will re-evaluate its predicate
NotifyAll(w, rset) ==
  [t \in Txns |-> IF w[t].op # "none" /\ w[t].rid \in rset
                  THEN [w[t] EXCEPT !.notified = TRUE]
                  ELSE w[t]]

\* the call ends by throwing and leaves the transaction's state alone
ThrowOnly(t, abort_reason) ==
  /\ txn_state' = txn_state
  /\ last_result' = [last_result EXCEPT ![t] = abort_reason]

\* AbortImplicitly: the state becomes ABORTED and the call ends by throwing
AbortImplicitly(t, abort_reason) ==
  /\ txn_state' = [txn_state EXCEPT ![t] = "ABORTED"]
  /\ last_result' = [last_result EXCEPT ![t] = abort_reason]

\* lines 57-69 / 93-103 / 142-154: what follows cv_.wait once its predicate holds,
\* for the request at position idx of queue q of rid r
AfterWait(t, r, op, q, idx) ==
  IF txn_state[t] = "ABORTED"
  THEN /\ AbortImplicitly(t, "DEADLOCK")
       /\ lock_table' = [lock_table EXCEPT ![r] = q]
       /\ waiting' = [waiting EXCEPT ![t] = NoWait]
       /\ UNCHANGED <<shared_lock_set, exclusive_lock_set>>
       /\ upgrading' = IF op = "U" THEN [upgrading EXCEPT ![r] = TRUE] ELSE upgrading
  ELSE /\ lock_table' = [lock_table EXCEPT ![r] = [q EXCEPT ![idx].granted = TRUE]]
       /\ waiting' = [waiting EXCEPT ![t] = NoWait]
       /\ last_result' = [last_result EXCEPT ![t] = "none"]
       /\ CASE op = "S" ->
                 /\ txn_state' = [txn_state EXCEPT ![t] = "GROWING"]
                 /\ shared_lock_set' = [shared_lock_set EXCEPT ![t] = @ \cup {r}]
                 /\ UNCHANGED <<exclusive_lock_set, upgrading>>
            [] op = "X" ->
                 /\ txn_state' = [txn_state EXCEPT ![t] = "GROWING"]
                 /\ exclusive_lock_set' = [exclusive_lock_set EXCEPT ![t] = @ \cup {r}]
                 /\ UNCHANGED <<shared_lock_set, upgrading>>
            [] op = "U" ->
                 /\ upgrading' = [upgrading EXCEPT ![r] = FALSE]
                 /\ shared_lock_set' = [shared_lock_set EXCEPT ![t] = @ \ {r}]
                 /\ exclusive_lock_set' = [exclusive_lock_set EXCEPT ![t] = @ \cup {r}]
                 /\ UNCHANGED txn_state

\* a plain enqueue-and-grant, with no cv_.wait on the compatibility predicate
GrantWithoutWaiting(t, r, op, q, idx) == AfterWait(t, r, op, q, idx)

\* cv_.wait(l, pred) entered with the request at position idx of q: the predicate
\* is evaluated first, under the latch; the thread blocks only when it is false
WaitOn(t, r, op, q, idx) ==
  IF IsLockCompatible(q, idx) \/ txn_state[t] = "ABORTED"
  THEN AfterWait(t, r, op, q, idx)
  ELSE /\ lock_table' = [lock_table EXCEPT ![r] = q]
       /\ waiting' = [waiting EXCEPT ![t] =
                        [op |-> op, rid |-> r, idx |-> idx, notified |-> FALSE]]
       /\ upgrading' = IF op = "U" THEN [upgrading EXCEPT ![r] = TRUE] ELSE upgrading
       /\ UNCHANGED <<txn_state, shared_lock_set, exclusive_lock_set, last_result>>

\* a client thread may start a call: it is not blocked in another one, and a
\* transaction that has been aborted only releases its locks (spec section 7)
CanCall(t) == ~crashed /\ waiting[t].op = "none"

LockShared(t, r) ==
  /\ CanCall(t) /\ txn_state[t] # "ABORTED"
  /\ UNCHANGED notLM
  /\ UNCHANGED <<isolation, crashed>>
  /\ IF isolation[t] = "READ_UNCOMMITTED"
     THEN /\ AbortImplicitly(t, "LOCKSHARED_ON_READ_UNCOMMITTED")
          /\ UNCHANGED <<lock_table, upgrading, shared_lock_set, exclusive_lock_set, waiting>>
     ELSE IF isolation[t] = "REPEATABLE_READ" /\ txn_state[t] = "SHRINKING"
     THEN /\ AbortImplicitly(t, "LOCK_ON_SHRINKING")
          /\ UNCHANGED <<lock_table, upgrading, shared_lock_set, exclusive_lock_set, waiting>>
     ELSE IF r \in shared_lock_set[t]
     THEN /\ last_result' = [last_result EXCEPT ![t] = "none"]
          /\ UNCHANGED <<lock_table, upgrading, txn_state, shared_lock_set,
                         exclusive_lock_set, waiting>>
     ELSE LET q == Append(lock_table[r], LockRequest(t, "SHARED"))
          IN  WaitOn(t, r, "S", q, Len(q))

LockExclusive(t, r) ==
  /\ CanCall(t) /\ txn_state[t] # "ABORTED"
  /\ UNCHANGED notLM
  /\ UNCHANGED <<isolation, crashed>>
  /\ IF txn_state[t] = "SHRINKING"
     THEN /\ AbortImplicitly(t, "LOCK_ON_SHRINKING")
          /\ UNCHANGED <<lock_table, upgrading, shared_lock_set, exclusive_lock_set, waiting>>
     ELSE IF r \in exclusive_lock_set[t]
     THEN /\ last_result' = [last_result EXCEPT ![t] = "none"]
          /\ UNCHANGED <<lock_table, upgrading, txn_state, shared_lock_set,
                         exclusive_lock_set, waiting>>
     ELSE LET q == Append(lock_table[r], LockRequest(t, "EXCLUSIVE"))
          IN  WaitOn(t, r, "X", q, Len(q))

LockUpgrade(t, r) ==
  /\ CanCall(t) /\ txn_state[t] # "ABORTED"
  /\ UNCHANGED notLM
  /\ UNCHANGED isolation
  /\ IF txn_state[t] = "SHRINKING"
     THEN /\ AbortImplicitly(t, "LOCK_ON_SHRINKING")
          /\ UNCHANGED <<lock_table, upgrading, shared_lock_set, exclusive_lock_set,
                         waiting, crashed>>
     ELSE IF r \in exclusive_lock_set[t]
     THEN /\ last_result' = [last_result EXCEPT ![t] = "none"]
          /\ UNCHANGED <<lock_table, upgrading, txn_state, shared_lock_set,
                         exclusive_lock_set, waiting, crashed>>
     ELSE IF upgrading[r]
     THEN /\ AbortImplicitly(t, "UPGRADE_CONFLICT")
          /\ UNCHANGED <<lock_table, upgrading, shared_lock_set, exclusive_lock_set,
                         waiting, crashed>>
     ELSE LET q  == lock_table[r]
              IsMine(req) == req.txn_id = t
              it == FirstIndex(q, IsMine)
          IN  IF \/ it = 0
                 \/ ~q[it].granted
                 \/ q[it].lock_mode # "SHARED"
                 \/ r \notin shared_lock_set[t]
              THEN \* a BUSTUB_ASSERT of lines 127-132 fails
                   /\ crashed' = TRUE
                   /\ upgrading' = [upgrading EXCEPT ![r] = TRUE]
                   /\ UNCHANGED <<lock_table, txn_state, shared_lock_set,
                                  exclusive_lock_set, waiting, last_result>>
              ELSE /\ UNCHANGED crashed
                   /\ WaitOn(t, r, "U",
                             [q EXCEPT ![it] = [@ EXCEPT !.lock_mode = "EXCLUSIVE",
                                                         !.granted = FALSE]],
                             it)

\* a thread blocked in cv_.wait re-evaluates its predicate, after a notify_all
\* (WakeNotified) or spuriously (SpuriousWake), and blocks again if it is false
Recheck(t) ==
  LET w == waiting[t]
      q == lock_table[w.rid]
  IN  /\ UNCHANGED <<isolation, crashed>>
      /\ UNCHANGED notLM
      /\ IF IsLockCompatible(q, w.idx) \/ txn_state[t] = "ABORTED"
         THEN AfterWait(t, w.rid, w.op, q, w.idx)
         ELSE /\ waiting' = [waiting EXCEPT ![t].notified = FALSE]
              /\ UNCHANGED <<lock_table, upgrading, txn_state, shared_lock_set,
                             exclusive_lock_set, last_result>>

WakeNotified(t) ==
  /\ ~crashed /\ waiting[t].op # "none" /\ waiting[t].notified
  /\ Recheck(t)

SpuriousWake(t) ==
  /\ ~crashed /\ waiting[t].op # "none" /\ ~waiting[t].notified
  /\ Recheck(t)

Unlock(t, r) ==
  /\ CanCall(t)
  /\ UNCHANGED notLM
  /\ UNCHANGED <<isolation, upgrading>>
  /\ IF r \notin shared_lock_set[t] /\ r \notin exclusive_lock_set[t]
     THEN /\ last_result' = [last_result EXCEPT ![t] = "none"]
          /\ UNCHANGED <<lock_table, txn_state, shared_lock_set, exclusive_lock_set,
                         waiting, crashed>>
     ELSE LET q  == lock_table[r]
              IsMine(req) == req.txn_id = t
              it == FirstIndex(q, IsMine)
              q1 == RemoveAt(q, it)
              \* the waiters' references to their own requests stay valid
              \* across the erase (std::list)
              w1 == [u \in Txns |->
                       IF waiting[u].op # "none" /\ waiting[u].rid = r /\ waiting[u].idx > it
                       THEN [waiting[u] EXCEPT !.idx = @ - 1]
                       ELSE waiting[u]]
          IN  /\ txn_state' =
                   IF isolation[t] = "REPEATABLE_READ" /\ txn_state[t] = "GROWING"
                   THEN [txn_state EXCEPT ![t] = "SHRINKING"]
                   ELSE txn_state
              /\ IF it = 0
                 THEN \* BUSTUB_ASSERT of line 171 fails
                      /\ crashed' = TRUE
                      /\ UNCHANGED <<lock_table, shared_lock_set, exclusive_lock_set,
                                     waiting, last_result>>
                 ELSE /\ UNCHANGED crashed
                      /\ lock_table' = [lock_table EXCEPT ![r] = q1]
                      /\ waiting' =
                           IF it <= Len(q1) /\ ~q1[it].granted /\ IsLockCompatible(q1, it)
                           THEN NotifyAll(w1, {r})
                           ELSE w1
                      /\ shared_lock_set' = [shared_lock_set EXCEPT ![t] = @ \ {r}]
                      /\ exclusive_lock_set' = [exclusive_lock_set EXCEPT ![t] = @ \ {r}]
                      /\ last_result' = [last_result EXCEPT ![t] = "none"]


(***************************************************************************)
(* Deadlock detection.  waits_for_ maps a transaction id to the sorted     *)
(* vector of the ids it waits for; here a function whose domain is the     *)
(* set of keys present.                                                    *)
(***************************************************************************)
\* std::lower_bound(v.begin(), v.end(), t2): the first position whose element
\* is not smaller than t2
LowerBound(v, t2) ==
  IF \E i \in 1..Len(v) : v[i] >= t2
  THEN SetMin({i \in 1..Len(v) : v[i] >= t2})
  ELSE Len(v) + 1

Adj(wf, t) == IF t \in DOMAIN wf THEN wf[t] ELSE <<>>

\* the edge goes to the back of the vector, wherever its id belongs
AddEdgeAtBack(wf, t1, t2) ==
  LET v  == Adj(wf, t1)
      v1 == IF \E i \in 1..Len(v) : v[i] = t2 THEN v ELSE Append(v, t2)
  IN  [t \in DOMAIN wf \cup {t1} |-> IF t = t1 THEN v1 ELSE wf[t]]

AddEdge(wf, t1, t2) ==
  LET v  == Adj(wf, t1)
      it == LowerBound(v, t2)
      v1 == IF it <= Len(v) /\ v[it] = t2 THEN v ELSE InsertAt(v, it, t2)
  IN  [t \in DOMAIN wf \cup {t1} |-> IF t = t1 THEN v1 ELSE wf[t]]

RECURSIVE AddEdges(_, _, _)
\* the double loop of BuildWaitsForGraph lines 321-325 over one queue
AddEdges(wf, waitings, holdings) ==
  IF waitings = <<>> \/ holdings = <<>>
  THEN wf
  ELSE LET t1 == Head(waitings)
           RECURSIVE Inner(_, _)
           Inner(g, hs) == IF hs = <<>> THEN g
                           ELSE Inner(AddEdge(g, t1, Head(hs)), Tail(hs))
       IN  AddEdges(Inner(wf, holdings), Tail(waitings), holdings)

\* txn ids of the requests of q that are granted (g = TRUE) or waiting
\* (g = FALSE), requests of ABORTED transactions left out, in queue order
RequestsOf(q, st, g) ==
  LET keep(req) == st[req.txn_id] # "ABORTED" /\ req.granted = g
  IN  [i \in 1..Len(SelectSeq(q, keep)) |-> SelectSeq(q, keep)[i].txn_id]

RECURSIVE BuildFrom(_, _, _, _)
BuildFrom(wf, lt, st, r) ==
  IF r > NumRids THEN wf
  ELSE BuildFrom(AddEdges(wf, RequestsOf(lt[r], st, FALSE), RequestsOf(lt[r], st, TRUE)),
                 lt, st, r + 1)

\* waits_for_.clear(); BuildWaitsForGraph()
BuildWaitsForGraph(lt, st) == BuildFrom(<<>>, lt, st, 1)

\* the vertex the back edge points to, whatever else is on the cycle
BackEdgeTarget(path, vertex) == vertex

\* the largest id on path from its top down to vertex
GetYoungestTransactionInCycle(path, vertex) ==
  LET from == SetMax({i \in 1..Len(path) : path[i] = vertex})
  IN  SetMax({0} \cup {path[i] : i \in from..Len(path)})

Mark(visited, v, m) == [x \in DOMAIN visited \cup {v} |-> IF x = v THEN m ELSE visited[x]]

RECURSIVE ProcessDFSTreeFrom(_, _, _, _)
\* ProcessDFSTree with the loop over waits_for_[path->top()] at its k-th element
ProcessDFSTreeFrom(wf, path, visited, k) ==
  LET top == path[Len(path)]
      adj == Adj(wf, top)
  IN  IF k > Len(adj)
      THEN [has_cycle |-> FALSE, txn_id |-> 0, visited |-> Mark(visited, top, "VISITED")]
      ELSE LET v == adj[k]
           IN  IF v \in DOMAIN visited /\ visited[v] = "IN_STACK"
               THEN [has_cycle |-> TRUE,
                     txn_id |-> GetYoungestTransactionInCycle(path, v),
                     visited |-> Mark(visited, top, "VISITED")]
               ELSE IF v \notin DOMAIN visited
               THEN LET r == ProcessDFSTreeFrom(wf, Append(path, v),
                                                Mark(visited, v, "IN_STACK"), 1)
                    IN  IF r.has_cycle
                        THEN [r EXCEPT !.visited = Mark(r.visited, top, "VISITED")]
                        ELSE ProcessDFSTreeFrom(wf, path, r.visited, k + 1)
               ELSE ProcessDFSTreeFrom(wf, path, visited, k + 1)

ProcessDFSTree(wf, path, visited) == ProcessDFSTreeFrom(wf, path, visited, 1)

RECURSIVE HasCycleFrom(_, _, _)
\* the loop of HasCycle over the sorted vertices not below v
HasCycleFrom(wf, v, visited) ==
  IF v > MaxTxnId THEN [has_cycle |-> FALSE, txn_id |-> 0, visited |-> visited]
  ELSE IF v \notin DOMAIN wf \/ v \in DOMAIN visited
  THEN HasCycleFrom(wf, v + 1, visited)
  ELSE LET r == ProcessDFSTree(wf, <<v>>, Mark(visited, v, "IN_STACK"))
       IN  IF r.has_cycle
           THEN [has_cycle |-> TRUE, txn_id |-> r.txn_id, visited |-> r.visited]
           ELSE HasCycleFrom(wf, v + 1, r.visited)

HasCycle(wf) == HasCycleFrom(wf, 0, <<>>)

RECURSIVE DetectLoop(_, _, _, _, _)
\* the loop of RunCycleDetection lines 342-358: the transaction states and the
\* set of rids whose condition variable has been notified when it ends
DetectLoop(lt, st, sh, ex, notified) ==
  LET wf == BuildWaitsForGraph(lt, st)
      r  == HasCycle(wf)
  IN  IF ~r.has_cycle
      THEN [st |-> st, notified |-> notified]
      ELSE LET adj == Adj(wf, r.txn_id)
               rs  == UNION {sh[adj[i]] \cup ex[adj[i]] : i \in 1..Len(adj)}
           IN  DetectLoop(lt, [st EXCEPT ![r.txn_id] = "ABORTED"], sh, ex,
                          notified \cup rs)

\* one round of the detector thread, under latch_
RunCycleDetection ==
  LET d == DetectLoop(lock_table, txn_state, shared_lock_set, exclusive_lock_set, {})
  IN  /\ ~crashed
      /\ txn_state' = d.st
      /\ waiting' = NotifyAll(waiting, d.notified)
      /\ UNCHANGED <<lock_table, upgrading, isolation, shared_lock_set,
                     exclusive_lock_set, last_result, crashed>>
      /\ UNCHANGED notLM

(***************************************************************************)
(* The wait-for graph on its own: AddEdge, RemoveEdge and HasCycle called  *)
(* one after the other on waits_for_.                                      *)
(***************************************************************************)
\* waits_for_[t1] creates the entry of t1 when there is none; std::find and
\* erase take the first t2 out of the vector
RemoveEdge(wf, t1, t2) ==
  LET v  == Adj(wf, t1)
      IsT2(x) == x = t2
      it == FirstIndex(v, IsT2)
      v1 == IF it = 0 THEN v ELSE RemoveAt(v, it)
  IN  [t \in DOMAIN wf \cup {t1} |-> IF t = t1 THEN v1 ELSE wf[t]]

NoCycleCall == [called |-> FALSE, has_cycle |-> FALSE, txn_id |-> 0]

CallAddEdge(t1, t2) ==
  /\ waits_for' = AddEdge(waits_for, t1, t2)
  /\ wf_edges' = wf_edges \cup {<<t1, t2>>}
  /\ cycle_ret' = NoCycleCall
  /\ UNCHANGED notGraph

CallRemoveEdge(t1, t2) ==
  /\ waits_for' = RemoveEdge(waits_for, t1, t2)
  /\ wf_edges' = wf_edges \ {<<t1, t2>>}
  /\ cycle_ret' = NoCycleCall
  /\ UNCHANGED notGraph

\* HasCycle(&txn_id): every vertex the search pushes on its path gets an
\* entry in waits_for_, by waits_for_[path->top()] of line 251
CallHasCycle ==
  LET r == HasCycle(waits_for)
  IN  /\ cycle_ret' = [called |-> TRUE, has_cycle |-> r.has_cycle, txn_id |-> r.txn_id]
      /\ waits_for' = [t \in DOMAIN waits_for \cup DOMAIN r.visited |-> Adj(waits_for, t)]
      /\ UNCHANGED wf_edges
      /\ UNCHANGED notGraph

InitGraph ==
  /\ waits_for = <<>>
  /\ wf_edges = {}
  /\ cycle_ret = NoCycleCall

IsolationLevels == {"REPEATABLE_READ", "READ_COMMITTED", "READ_UNCOMMITTED"}

InitLM ==
  /\ InitBufferPool
  /\ InitTree
  /\ InitReplacer
  /\ InitLog /\ InitGraph /\ InitHash
  /\ lock_table = [r \in Rids |-> <<>>]
  /\ upgrading = [r \in Rids |-> FALSE]
  /\ txn_state = [t \in Txns |-> "GROWING"]
  /\ isolation \in [Txns -> IsolationLevels]
  /\ shared_lock_set = [t \in Txns |-> {}]
  /\ exclusive_lock_set = [t \in Txns |-> {}]
  /\ waiting = [t \in Txns |-> NoWait]
  /\ last_result = [t \in Txns |-> "none"]
  /\ crashed = FALSE

\* the calls of the transactions of T on the rids of R, with the detector
NextLMOn(T, R) ==
  \/ \E t \in T, r \in R : LockShared(t, r)
  \/ \E t \in T, r \in R : LockExclusive(t, r)
  \/ \E t \in T, r \in R : LockUpgrade(t, r)
  \/ \E t \in T, r \in R : Unlock(t, r)
  \/ \E t \in T : WakeNotified(t)
  \/ \E t \in T : SpuriousWake(t)
  \/ RunCycleDetection

\* all the transactions contending for one rid
QueueRids == {1}
NextLMQueue == NextLMOn(Txns, QueueRids)
SpecLMQueue == InitLM /\ [][NextLMQueue]_vars

\* the two oldest transactions over all the rids
DeadlockTxns == {0, 1}
NextLMDeadlock == NextLMOn(DeadlockTxns, Rids)
InitLMDeadlock ==
  InitLM /\ \A t \in Txns \ DeadlockTxns : isolation[t] = "REPEATABLE_READ"
SpecLMDeadlock == InitLMDeadlock /\ [][NextLMDeadlock]_vars

\* a round of the detector would change the state: it finds a cycle, and so
\* aborts a transaction or notifies a waiter
DetectorHasWork ==
  LET d == DetectLoop(lock_table, txn_state, shared_lock_set, exclusive_lock_set, {})
  IN  ~crashed /\ (d.st # txn_state \/ NotifyAll(waiting, d.notified) # waiting)

\* the lock manager's own threads are scheduled fairly: a notified waiter gets
\* the latch again and the detector thread keeps running (lines 330-331).  The
\* second conjunct is WF_vars(RunCycleDetection) with its ENABLED written out
\* as DetectorHasWork.
FairLM(T) ==
  /\ \A t \in T : WF_vars(WakeNotified(t))
  /\ ([]<>(~DetectorHasWork) \/ []<><<RunCycleDetection>>_vars)

FairLMQueue == SpecLMQueue /\ FairLM(Txns)

FairLMDeadlock == SpecLMDeadlock /\ FairLM(DeadlockTxns)

\* the lock manager before any call, for the specifications of the other
\* subsystems
IdleLM ==
  /\ lock_table = [r \in Rids |-> <<>>]
  /\ upgrading = [r \in Rids |-> FALSE]
  /\ txn_state = [t \in Txns |-> "GROWING"]
  /\ isolation = [t \in Txns |-> "REPEATABLE_READ"]
  /\ shared_lock_set = [t \in Txns |-> {}]
  /\ exclusive_lock_set = [t \in Txns |-> {}]
  /\ waiting = [t \in Txns |-> NoWait]
  /\ last_result = [t \in Txns |-> "none"]
  /\ crashed = FALSE

InitBPM == InitBufferPool /\ IdleLM /\ InitTree /\ InitReplacer /\ InitLog /\ InitGraph /\ InitHash

NextBPM ==
  \/ NewPage
  \/ \E p \in PageIds : FetchPage(p)
  \/ \E p \in PageIds, is_dirty \in BOOLEAN : UnpinPage(p, is_dirty)
  \/ \E p \in PageIds : FlushPage(p)
  \/ \E p \in PageIds : DeletePage(p)
  \/ \E p \in PageIds, d \in Data : WriteData(p, d)

SpecBPM == InitBPM /\ [][NextBPM]_vars

\* FlushAllPages among the calls that bring pages into the pool and change
\* them
NextBPMFlushAll ==
  \/ NewPage
  \/ \E p \in PageIds : FetchPage(p)
  \/ \E p \in PageIds, is_dirty \in BOOLEAN : UnpinPage(p, is_dirty)
  \/ \E p \in PageIds, d \in Data : WriteData(p, d)
  \/ FlushAllPages

SpecBPMFlushAll == InitBPM /\ [][NextBPMFlushAll]_vars

\* instance i of n, with the calls that bring pages in and let them go; the
\* parallel pool hands an instance the page ids it owns only
InitBPMAlloc ==
  /\ \E n \in 1..MaxInstances : \E i \in 0..(n - 1) : InitBufferPoolOf(n, i)
  /\ IdleLM
  /\ InitTree
  /\ InitReplacer
  /\ InitLog /\ InitGraph /\ InitHash

OwnPageIds == {p \in DOMAIN disk : p % num_instances = instance_index}

NextBPMAlloc ==
  \/ NewPage
  \/ \E p \in OwnPageIds : FetchPage(p)
  \/ \E p \in OwnPageIds, is_dirty \in BOOLEAN : UnpinPage(p, is_dirty)
  \/ \E p \in OwnPageIds : DeletePage(p)

SpecBPMAlloc == InitBPMAlloc /\ [][NextBPMAlloc]_vars

\* the calls that bring pages into the pool, change them and delete them
NextBPMDelete ==
  \/ NewPage
  \/ \E p \in PageIds : FetchPage(p)
  \/ \E p \in PageIds, is_dirty \in BOOLEAN : UnpinPage(p, is_dirty)
  \/ \E p \in PageIds : DeletePage(p)
  \/ \E p \in PageIds, d \in Data : WriteData(p, d)

SpecBPMDelete == InitBPM /\ [][NextBPMDelete]_vars

InitBPlusTree ==
  /\ \E l \in 2..MaxLeafMaxSize : InitTreeOf(l)
  /\ IdleLM
  /\ InitBufferPool
  /\ InitReplacer
  /\ InitLog /\ InitGraph /\ InitHash

NextTree ==
  \/ \E key \in Keys, value \in Values : Insert(key, value)
  \/ \E key \in Keys : Remove(key)
  \/ \E key \in Keys : GetValue(key)

SpecTree == InitBPlusTree /\ [][NextTree]_vars

\* one thread inserts keys with a transaction and looks keys up with a
\* transaction or with nullptr
NextTreePins ==
  \/ \E key \in PinKeys, value \in Values : Insert(key, value)
  \/ \E key \in PinKeys, transaction \in BOOLEAN : GetValuePinning(key, transaction)

SpecTreePins == InitBPlusTree /\ [][NextTreePins]_vars

InitLogging == InitLog /\ InitGraph /\ InitHash /\ IdleLM /\ InitBufferPool /\ InitTree /\ InitReplacer

NextLog ==
  \/ \E t \in LogThreads : Begin(t)
  \/ \E t \in LogThreads : NewTableHeap(t)
  \/ \E t \in LogThreads : InsertTuple(t)
  \/ \E t \in LogThreads : MarkDelete(t)
  \/ \E t \in LogThreads : CommitApplyDelete(t)
  \/ \E t \in LogThreads : CommitRecord(t)
  \/ \E t \in LogThreads : CommitReturn(t)
  \/ FlushSwap
  \/ FlushWrite

SpecLog == InitLogging /\ [][NextLog]_vars

InitTreeConc ==
  /\ ops_left = MaxTreeOps
  /\ InitTreePages(2)
  /\ \E shared \in BOOLEAN : InitLatching(shared)
  /\ IdleLM
  /\ InitBufferPool
  /\ InitReplacer
  /\ InitLog /\ InitGraph /\ InitHash

NextTreeConc ==
  \/ \E t \in TreeThreads, key \in ConcKeys : BeginGetValue(t, key)
  \/ \E t \in TreeThreads, key \in ConcKeys : BeginInsert(t, key)
  \/ \E t \in TreeThreads, key \in ConcKeys : BeginRemove(t, key)
  \/ \E t \in TreeThreads : Continue(t)

SpecTreeConc == InitTreeConc /\ [][NextTreeConc]_vars

\* one thread makes the calls, step by step, with more keys: the tree grows
\* to three levels
CrabKeys == 1..MaxCrabKey

NextTreeCrab ==
  \/ \E key \in CrabKeys : BeginGetValue(Caller, key)
  \/ \E key \in CrabKeys : BeginInsert(Caller, key)
  \/ \E key \in CrabKeys : BeginRemove(Caller, key)
  \/ Continue(Caller)

SpecTreeCrab == InitTreeConc /\ [][NextTreeCrab]_vars

\* the call of thread t is under way and the lock or latch it needs next, if
\* any, is free: a step of Continue(t) can be taken
Runnable(t) ==
  /\ ~tree_crashed
  /\ \/ thread_pc[t] = "find" /\ root_latch = 0
     \/ thread_pc[t] \in {"latch_root", "latch_child"} /\ CanLatch(t, threads[t].node)
     \/ thread_pc[t] = "latch_sibling" /\ CanWLatch(threads[t].sibling)
     \/ thread_pc[t] \in {"descend", "cor"}

\* a runnable thread moves on: every step of Continue(t) that does not end the
\* run takes thread t, and t only, to another point of its call
Advance(t) ==
  /\ Runnable(t)
  /\ \E pc \in ThreadPoints \ {thread_pc[t]} : thread_pc' = [thread_pc EXCEPT ![t] = pc]

\* a scheduler that is fair to every thread with a call under way: no thread
\* that can take a step is left waiting for ever
FairTreeConc == SpecTreeConc /\ \A t \in TreeThreads : WF_thread_pc(Advance(t))

\* a replacer of either policy called by one thread at a time
InitReplacers ==
  /\ \E policy \in {"LRU", "Clock"} : InitReplacerOf(policy)
  /\ InitLog /\ InitGraph /\ InitHash
  /\ IdleLM
  /\ InitBufferPool
  /\ InitTree

NextReplacer ==
  \/ LRUReplacerVictim
  \/ \E f \in ReplFrames : LRUReplacerPin(f)
  \/ \E f \in ReplFrames : LRUReplacerUnpin(f)
  \/ LRUReplacerSize
  \/ ClockReplacerVictim
  \/ \E f \in ReplFrames : ClockReplacerPin(f)
  \/ \E f \in ReplFrames : ClockReplacerUnpin(f)
  \/ ClockReplacerSize

SpecReplacer == InitReplacers /\ [][NextReplacer]_vars

\* the clock replacer called by concurrent threads
InitClockConc == InitReplacerOf("Clock") /\ IdleLM /\ InitBufferPool /\ InitTree /\ InitLog /\ InitGraph /\ InitHash

NextClockConc ==
  \/ \E t \in ClockThreads : VictimSize(t)
  \/ \E t \in ClockThreads : VictimLock(t)
  \/ \E t \in ClockThreads : VictimSweep(t)
  \/ \E f \in ReplFrames : ClockReplacerPin(f)
  \/ \E f \in ReplFrames : ClockReplacerUnpin(f)
  \/ ClockReplacerSize

SpecClockConc == InitClockConc /\ [][NextClockConc]_vars

\* a scheduler that is fair to every thread inside Victim: a thread that
\* waits for the mutex gets it when it is free again and again, and a thread
\* inside the loop goes on with its next pass
FairClockConc ==
  /\ SpecClockConc
  /\ \A t \in ClockThreads : SF_vars(VictimLock(t)) /\ WF_vars(VictimSweep(t))

\* the wait-for graph built and searched call by call
InitGraphs ==
  InitGraph /\ InitLog /\ InitHash /\ IdleLM /\ InitBufferPool /\ InitTree /\ InitReplacer

NextGraph ==
  \/ \E t1 \in Txns, t2 \in Txns : CallAddEdge(t1, t2)
  \/ \E t1 \in Txns, t2 \in Txns : CallRemoveEdge(t1, t2)
  \/ CallHasCycle

SpecGraph == InitGraphs /\ [][NextGraph]_vars

\* the hash table called by one thread
InitHashing ==
  /\ InitHashTable(MaxHashOps)
  /\ InitGraph /\ InitLog /\ IdleLM /\ InitBufferPool /\ InitTree /\ InitReplacer

NextHash ==
  \/ \E key \in HashKeys : HashInsert(key)
  \/ \E key \in HashKeys : HashRemove(key)

SpecHash == InitHashing /\ [][NextHash]_vars

(***************************************************************************)
(*                       CLAIMS: LOCK MANAGER                              *)
(***************************************************************************)
\* t holds a granted request of the given mode on r / of any mode
Holds(t, r, mode) ==
  \E i \in 1..Len(lock_table[r]) :
     /\ lock_table[r][i].txn_id = t
     /\ lock_table[r][i].granted
     /\ lock_table[r][i].lock_mode = mode

HoldsAny(t, r) == Holds(t, r, "SHARED") \/ Holds(t, r, "EXCLUSIVE")

\* C1: lock mutual exclusion.  On every rid, in every reachable state, a
\* granted EXCLUSIVE request of one transaction excludes every granted request
\* (SHARED or EXCLUSIVE) of any other transaction.
C1_MutualExclusion ==
  \A r \in Rids : \A t \in Txns : \A u \in Txns \ {t} :
     Holds(t, r, "EXCLUSIVE") => ~HoldsAny(u, r)

\* an edge of the wait-for graph of lock table lt under transaction states st:
\* a waiting request of t1 and a granted request of t2 share a queue, neither
\* transaction being ABORTED
WaitsFor(lt, st, t1, t2) ==
  /\ st[t1] # "ABORTED" /\ st[t2] # "ABORTED"
  /\ \E r \in Rids : \E i, j \in 1..Len(lt[r]) :
        /\ lt[r][i].txn_id = t1 /\ ~lt[r][i].granted
        /\ lt[r][j].txn_id = t2 /\ lt[r][j].granted

RECURSIVE ReachWithin(_, _, _, _)
\* the transactions of N reachable from those of S along wait-for edges
ReachWithin(lt, st, N, S) ==
  LET S2 == S \cup {v \in N : \E u \in S : WaitsFor(lt, st, u, v)}
  IN  IF S2 = S THEN S ELSE ReachWithin(lt, st, N, S2)

\* t lies on a wait-for cycle made of transactions of N
OnCycleWithin(lt, st, N, t) ==
  t \in N /\ t \in ReachWithin(lt, st, N, {v \in N : WaitsFor(lt, st, t, v)})

\* C6: deadlock victim choice.  Every transaction a round of the detector marks
\* ABORTED lies on a wait-for cycle of the lock table on which it has the
\* highest id; a transaction on no cycle is never marked; and when the round
\* ends no wait-for cycle is left.
C6_VictimIsYoungestOnCycle ==
  [][(\E t \in Txns : /\ txn_state[t] # "ABORTED" /\ txn_state'[t] = "ABORTED"
                      /\ last_result'[t] = last_result[t])
       => /\ \A t \in Txns :
               (txn_state[t] # "ABORTED" /\ txn_state'[t] = "ABORTED")
                  => OnCycleWithin(lock_table, txn_state, 0..t, t)
          /\ \A t \in Txns : ~OnCycleWithin(lock_table', txn_state', Txns, t)]_vars

\* C6 witness: T0 holds X(1) and waits for X(2), T1 holds X(2) and waits for
\* X(1); the detector has marked T1, the younger, and not T0
C6_Witness ==
  /\ Holds(0, 1, "EXCLUSIVE") /\ Holds(1, 2, "EXCLUSIVE")
  /\ waiting[0].op = "X" /\ waiting[0].rid = 2
  /\ waiting[1].op = "X" /\ waiting[1].rid = 1
  /\ txn_state[1] = "ABORTED" /\ last_result[1] = "none"
  /\ txn_state[0] # "ABORTED"

\* t is blocked in a lock call on r
Blocked(t, r) == waiting[t].op # "none" /\ waiting[t].rid = r

\* the lock call of t on r has returned true
Granted(t, r) ==
  /\ waiting[t].op = "none" /\ last_result[t] = "none"
  /\ r \in shared_lock_set[t] \cup exclusive_lock_set[t]

\* v and s deadlock each other: s is blocked on r, which v holds and s does
\* not, and v is blocked on a rid that s holds
DeadlockedOn(v, s, r) ==
  /\ Blocked(s, r) /\ HoldsAny(v, r) /\ ~HoldsAny(s, r)
  /\ \E a \in Rids : Blocked(v, a) /\ HoldsAny(s, a)

NothingToWaitFor(t) ==
  /\ waiting[t].op # "none" /\ ~crashed /\ txn_state[t] # "ABORTED"
  /\ LET q == lock_table[waiting[t].rid]
         i == waiting[t].idx
     IN  \A j \in 1..(i - 1) :
            /\ q[j].granted
            /\ q[j].lock_mode = "SHARED" /\ q[i].lock_mode = "SHARED"

C9_UpgradeWaitsForReaders ==
  [][\A r \in Rids : \A t \in Txns :
        (r \in shared_lock_set[t] /\ r \in exclusive_lock_set'[t])
           => \A u \in Txns \ {t} : r \notin shared_lock_set'[u]]_vars

C11_TwoPhaseLocking ==
  [][\A t \in Txns :
        isolation[t] = "REPEATABLE_READ" =>
          LET held  == shared_lock_set[t] \cup exclusive_lock_set[t]
              held1 == shared_lock_set'[t] \cup exclusive_lock_set'[t]
              Done(st) == st \in {"SHRINKING", "ABORTED"}
          IN  /\ (held1 # held /\ held1 \subseteq held) => Done(txn_state'[t])
              /\ Done(txn_state[t]) =>
                    /\ Done(txn_state'[t])
                    /\ shared_lock_set'[t] \subseteq shared_lock_set[t]
                    /\ exclusive_lock_set'[t] \subseteq exclusive_lock_set[t]
              /\ txn_state[t] = "SHRINKING" =>
                    \A r \in Rids :
                       (LockShared(t, r) \/ LockExclusive(t, r) \/ LockUpgrade(t, r))
                          => /\ last_result'[t] = "LOCK_ON_SHRINKING"
                             /\ txn_state'[t] = "ABORTED"]_vars

\* C11 witness: a REPEATABLE_READ transaction that released its lock has called
\* a Lock operation and got LOCK_ON_SHRINKING, while another one is SHRINKING
C11_Witness ==
  \E t, u \in Txns :
     /\ t # u
     /\ isolation[t] = "REPEATABLE_READ" /\ isolation[u] = "REPEATABLE_READ"
     /\ last_result[t] = "LOCK_ON_SHRINKING" /\ txn_state[t] = "ABORTED"
     /\ shared_lock_set[t] = {} /\ exclusive_lock_set[t] = {}
     /\ txn_state[u] = "SHRINKING"

\* C26: LockUpgrade on a RID whose queue already has another transaction's
\* upgrade pending fails with UPGRADE_CONFLICT and sets the caller's state to
\* ABORTED, leaving the queue unchanged: the pending upgrade, the upgrading
\* flag and the caller's own granted shared request all stay as they were.
\* The caller is one the two checks ahead of the conflict check let through:
\* it is not SHRINKING and does not hold the exclusive lock.
C26_UpgradeConflict ==
  [][\A t \in Txns, r \in Rids :
        (/\ LockUpgrade(t, r)
         /\ txn_state[t] # "SHRINKING"
         /\ r \notin exclusive_lock_set[t]
         /\ \E u \in Txns \ {t} : waiting[u].op = "U" /\ waiting[u].rid = r)
          => /\ last_result'[t] = "UPGRADE_CONFLICT"
             /\ txn_state'[t] = "ABORTED"
             /\ lock_table' = lock_table
             /\ upgrading'[r] /\ upgrading' = upgrading
             /\ waiting' = waiting
             /\ shared_lock_set' = shared_lock_set
             /\ exclusive_lock_set' = exclusive_lock_set]_vars

\* a transaction holding a granted shared lock on r has called LockUpgrade
\* while the upgrade of another one was waiting on r, and has been aborted
\* with UPGRADE_CONFLICT; the other upgrade still waits
C26_Witness ==
  \E t, u \in Txns, r \in Rids :
     /\ t # u
     /\ last_result[t] = "UPGRADE_CONFLICT" /\ txn_state[t] = "ABORTED"
     /\ waiting[u].op = "U" /\ waiting[u].rid = r /\ upgrading[r]
     /\ r \in shared_lock_set[t]
     /\ \E i \in 1..Len(lock_table[r]) :
           lock_table[r][i] = [txn_id |-> t, lock_mode |-> "SHARED", granted |-> TRUE]
     /\ \E i \in 1..Len(lock_table[r]) :
           lock_table[r][i] = [txn_id |-> u, lock_mode |-> "EXCLUSIVE", granted |-> FALSE]

\* C27: LockUpgrade on a RID on which the calling transaction holds no granted
\* shared lock fails with UPGRADE_ON_UNSHARED and sets the transaction's state
\* to ABORTED, leaving that RID's request queue and upgrading flag unchanged.
\* The caller is one the checks ahead let through: it is not SHRINKING, does
\* not hold the exclusive lock, and no upgrade is pending on the RID.
C27_UpgradeOnUnshared ==
  [][\A t \in Txns, r \in Rids :
        (/\ LockUpgrade(t, r)
         /\ txn_state[t] # "SHRINKING"
         /\ r \notin exclusive_lock_set[t]
         /\ ~upgrading[r]
         /\ ~\E i \in 1..Len(lock_table[r]) :
                lock_table[r][i] = [txn_id |-> t, lock_mode |-> "SHARED", granted |-> TRUE])
          => /\ ~crashed'
             /\ last_result'[t] = "UPGRADE_ON_UNSHARED"
             /\ txn_state'[t] = "ABORTED"
             /\ lock_table'[r] = lock_table[r]
             /\ upgrading'[r] = upgrading[r]]_vars

(***************************************************************************)
(*                       CLAIMS: BUFFER POOL                               *)
(***************************************************************************)
\* C2: a pinned page is never evicted.  No step of the pool gives the frame of
\* a page whose pin count is above 0 to another page, nor takes that page out
\* of the page table.
C2_PinnedNeverEvicted ==
  [][\A f \in Frames :
        (pages[f].page_id # INVALID_PAGE_ID /\ pages[f].pin_count > 0)
           => /\ pages'[f].page_id = pages[f].page_id
              /\ pages[f].page_id \in DOMAIN page_table']_vars

\* C3: write-back round trip.  A page that is not resident any more and whose
\* bytes a holder had passed to UnpinPage with is_dirty = true (no holder
\* having changed them since) has exactly those bytes on disk, so that a later
\* FetchPage reads them back.
C3_WriteBackRoundTrip ==
  \A p \in PageIds :
     p \notin DOMAIN page_table => \A d \in promised[p] : disk[p] = d

\* C5: NewPage returns null if and only if every frame holds a page with a pin
\* count above 0.
C5_NewPageNullIffAllPinned ==
  [][(/\ bpm_ret'.op = "NewPage"
      /\ (bpm_ret' # bpm_ret \/ next_page_id' # next_page_id))
       => (~bpm_ret'.ok
             <=> \A f \in Frames : /\ pages[f].page_id # INVALID_PAGE_ID
                                   /\ pages[f].pin_count > 0)]_vars

\* C16: no page id is resident in two frames.  Between the calls of the pool
\* the page table maps distinct page ids to distinct frames, the page_id_ of
\* each mapped frame is the key that maps to it, and no two frames carry the
\* same page id.
C16_OneFramePerPage ==
  /\ \A p \in DOMAIN page_table : pages[page_table[p]].page_id = p
  /\ \A p, q \in DOMAIN page_table : page_table[p] = page_table[q] => p = q
  /\ \A f, g \in Frames :
        (pages[f].page_id = pages[g].page_id /\ pages[f].page_id # INVALID_PAGE_ID)
           => f = g

\* every frame holds a page, more pages have been created than there are
\* frames (so pages have been evicted), and a FetchPage has just returned a
\* page
C16_Witness ==
  /\ bpm_ret = Ret("FetchPage", TRUE)
  /\ Cardinality(DOMAIN page_table) = PoolSize
  /\ next_page_id > PoolSize
  /\ \E p \in DOMAIN page_table : p < next_page_id - 1 /\ pages[page_table[p]].pin_count = 1

\* C17: the replacer and the pin counts agree.  Between the calls of the pool
\* (NewPage, FetchPage, UnpinPage, FlushPage, DeletePage in any order) every
\* frame that holds a page with pin_count 0 is in the replacer and every frame
\* with pin_count > 0 is not.
C17_ReplacerAgreesWithPins ==
  \A f \in Frames :
     LET tracked == \E i \in 1..Len(lru_list) : lru_list[i] = f
     IN  /\ (pages[f].page_id # INVALID_PAGE_ID /\ pages[f].pin_count = 0) => tracked
         /\ pages[f].pin_count > 0 => ~tracked

\* C18: UnpinPage(p, is_dirty) ORs is_dirty into the dirty bit and never
\* clears it: a page whose dirty bit is set still has it set after
\* UnpinPage(p, false), unless the call has written the page to disk.
C18_UnpinKeepsDirtyBit ==
  [][\A p \in PageIds, is_dirty \in BOOLEAN :
        (UnpinPage(p, is_dirty) /\ p \in DOMAIN page_table
           /\ pages[page_table[p]].pin_count > 0)
          => LET f == page_table[p]
             IN  /\ (pages[f].is_dirty \/ is_dirty)
                       => (pages'[f].is_dirty \/ disk'[p] = pages[f].data)
                 /\ pages'[f].is_dirty => (pages[f].is_dirty \/ is_dirty)]_vars

\* C19: FlushPage(p) on a mapped page returns true and leaves the pin count
\* of the page as it was, whatever the pin count and the dirty bit are.
C19_FlushKeepsPinCount ==
  [][\A p \in PageIds :
        (FlushPage(p) /\ p \in DOMAIN page_table)
          => /\ bpm_ret' = Ret("FlushPage", TRUE)
             /\ pages'[page_table[p]].pin_count = pages[page_table[p]].pin_count]_vars

\* C20: FlushAllPages terminates whenever it is called, with pages in the page
\* table or without, and when it returns every mapped page that was dirty has
\* been written to disk and has its dirty bit clear.
C20_FlushAllTerminates ==
  [][FlushAllPages
       => /\ bpm_latch' = "free"
          /\ bpm_ret' = Ret("FlushAllPages", TRUE)
          /\ \A p \in DOMAIN page_table :
                LET f == page_table[p]
                IN  /\ ~pages'[f].is_dirty
                    /\ pages[f].is_dirty => disk'[p] = pages[f].data]_vars

\* C21: DeletePage(p) returns true when p is not mapped; it returns false and
\* changes no pool state when p is mapped with pin_count > 0; otherwise it
\* removes p from the page table, resets the metadata of the frame (page id,
\* dirty bit, bytes; the pin count is 0) and puts the frame at the back of the
\* free list, returning true.
C21_DeletePage ==
  [][\A p \in PageIds :
        DeletePage(p)
          => LET f == FindPage(page_table, p)
             IN  IF f = -1
                 THEN bpm_ret' = Ret("DeletePage", TRUE)
                 ELSE IF pages[f].pin_count > 0
                 THEN /\ bpm_ret' = Ret("DeletePage", FALSE)
                      /\ UNCHANGED <<pages, page_table, free_list, lru_list,
                                     next_page_id, disk>>
                 ELSE /\ bpm_ret' = Ret("DeletePage", TRUE)
                      /\ p \notin DOMAIN page_table'
                      /\ \A q \in DOMAIN page_table \ {p} :
                            q \in DOMAIN page_table' /\ page_table'[q] = page_table[q]
                      /\ pages'[f] = [page_id |-> INVALID_PAGE_ID, pin_count |-> 0,
                                      is_dirty |-> FALSE, data |-> 0]
                      /\ free_list' = Append(free_list, f)]_vars

\* DeletePage has just returned true for a page that was resident: its frame
\* is the last of the free list and carries no page id, and the frame had been
\* handed to the replacer by the UnpinPage that brought its pin count to 0
C21_Witness ==
  /\ bpm_ret = Ret("DeletePage", TRUE)
  /\ free_list # <<>>
  /\ LET f == free_list[Len(free_list)]
     IN  /\ pages[f] = [page_id |-> INVALID_PAGE_ID, pin_count |-> 0,
                        is_dirty |-> FALSE, data |-> 0]
         /\ \E i \in 1..Len(lru_list) : lru_list[i] = f
  /\ \E p \in PageIds : p < next_page_id /\ p \notin DOMAIN page_table

\* C28: page-id allocation.  The page ids handed out by buffer-pool instance
\* i of n are exactly i, i+n, i+2n, ... in that order, so every allocated id
\* is congruent to i modulo n and no id is handed out twice; a NewPage that
\* fails for lack of a frame consumes no id.
C28_PageIdAllocation ==
  /\ \A k \in 1..Len(handed_out) :
        handed_out[k] = instance_index + (k - 1) * num_instances
  /\ next_page_id = instance_index + Len(handed_out) * num_instances

\* instance 1 of 2 has handed out 1, 3 and 5: page 1 has been unpinned and its
\* frame taken for page 5, and every frame is pinned again
C28_Witness ==
  /\ num_instances = 2 /\ instance_index = 1
  /\ handed_out = <<1, 3, 5>>
  /\ bpm_ret = Ret("NewPage", TRUE)
  /\ DOMAIN page_table = {3, 5}
  /\ \A f \in Frames : pages[f].pin_count = 1

(***************************************************************************)
(*                          CLAIMS: B+TREE                                 *)
(***************************************************************************)
\* C4: single-threaded map equivalence.  Run side by side with a reference
\* key -> value map, every call of the tree returns what the reference map
\* returns for it: Insert returns true iff the key was absent (a duplicate
\* insert returns false and leaves the stored value), and GetValue(k), after
\* every step, returns true with the reference value for the keys of the
\* reference map and false for all the others; no call brings the tree down.
C4_MapEquivalence == ~tree_crashed /\ tree_ret = ref_ret

\* C12: concurrent lookups are consistent.  A GetValue(k) that returns finds
\* only a key some Insert has been called for, and it finds k whenever an
\* Insert(k) had returned true before the lookup began and no Remove(k) has
\* been called: a lookup that runs while another thread splits a page, the
\* root included, misses no key.
C12_LookupsConsistent ==
  \A t \in TreeThreads :
     (threads[t].op = "GetValue" /\ thread_pc[t] = "idle") =>
        /\ threads[t].result = "found" => threads[t].key \in history.started
        /\ (threads[t].expect /\ threads[t].key \notin history.removing)
              => threads[t].result = "found"

\* C13: tree operations cannot deadlock.  Under a fair scheduler every call
\* of Insert, Remove and GetValue the threads make, each with its own
\* transaction, returns: no thread waits for ever for the root mutex, a page
\* latch or a sibling latch.
C13_CallsTerminate ==
  \A t \in TreeThreads :
     (thread_pc[t] # "idle") ~> (thread_pc[t] = "idle" \/ tree_crashed)

\* FindLeafPage(key, true) of Begin() and End(): the leaf reached through
\* ValueAt(0) of every internal page, INVALID_PAGE_ID when the pages lead
\* nowhere
RECURSIVE LeftMostLeaf(_, _, _)
LeftMostLeaf(pgs, p, fuel) ==
  IF p \notin DOMAIN pgs \/ fuel = 0 THEN INVALID_PAGE_ID
  ELSE IF IsLeafPage(pgs[p]) THEN p
  ELSE IF pgs[p].array = <<>> THEN INVALID_PAGE_ID
  ELSE LeftMostLeaf(pgs, pgs[p].array[1].value, fuel - 1)

\* the keys an iterator meets from slot 0 of leaf p to the end of the last
\* leaf, following next_page_id as End() does (lines 606-613); a walk that
\* leaves the pages of the tree or does not end meets ZeroKey
RECURSIVE LeafWalk(_, _, _)
LeafWalk(pgs, p, fuel) ==
  IF p = INVALID_PAGE_ID THEN <<>>
  ELSE IF p \notin DOMAIN pgs \/ fuel = 0 \/ ~IsLeafPage(pgs[p]) THEN <<ZeroKey>>
  ELSE [i \in 1..Len(pgs[p].array) |-> pgs[p].array[i].key]
         \o LeafWalk(pgs, pgs[p].next_page_id, fuel - 1)

RECURSIVE Ascending(_)
Ascending(S) ==
  IF S = {} THEN <<>> ELSE <<SetMin(S)>> \o Ascending(S \ {SetMin(S)})

\* C14: sorted iteration.  After any sequence of inserts and removes that
\* leaves keys in the tree, the walk from the leftmost leaf through
\* next_page_id to the end of the last leaf meets every key of the tree
\* exactly once, in strictly ascending order.
C14_SortedIteration ==
  root_page_id # INVALID_PAGE_ID =>
     LET first == LeftMostLeaf(tree_pages, root_page_id, MaxTreePageId)
     IN  /\ first # INVALID_PAGE_ID
         /\ LeafWalk(tree_pages, first, MaxTreePageId) = Ascending(DOMAIN ref)

\* a Remove has merged two leaves and given a page back, and the keys left
\* are spread over at least three leaves
C14_Witness ==
  /\ tree_ret.op = "Remove"
  /\ Cardinality(DOMAIN tree_pages) < tree_next_page_id - 1
  /\ root_page_id # INVALID_PAGE_ID
  /\ Cardinality({p \in DOMAIN tree_pages : IsLeafPage(tree_pages[p])}) >= 3

C29_PinLatchBalance ==
  [][~tree_crashed' =>
       /\ tree_pins' = tree_pins
       /\ \A p \in DOMAIN page_latch' : page_latch'[p] = [w |-> 0, r |-> {}]
       /\ root_latch' = 0]_vars

(***************************************************************************)
(*                         CLAIMS: REPLACERS                               *)
(***************************************************************************)
\* C22: LRU replacer order.  Victim removes and returns the tracked frame that
\* was unpinned least recently, where Unpin of a frame that is already tracked
\* does not refresh its position and Pin removes a frame from the order
\* (unpin_order keeps that order); Victim returns none, and changes nothing,
\* when no frame is tracked.  Unpin(0), Unpin(1), Unpin(2) gives the victims
\* 0, 1, 2.
C22_LRUOrder ==
  [][LRUReplacerVictim
       => IF unpin_order = <<>>
          THEN ~repl_ret'.ok /\ lru_r' = lru_r
          ELSE /\ repl_ret'.ok
               /\ repl_ret'.frame = Head(unpin_order)
               /\ ~\E i \in 1..Len(lru_r') : lru_r'[i] = Head(unpin_order)
               /\ LRUSize(lru_r') = LRUSize(lru_r) - 1
               /\ \A f \in ReplFrames \ {Head(unpin_order)} :
                     Tracked(f) <=> \E i \in 1..Len(lru_r') : lru_r'[i] = f]_vars

\* three Victim calls in a row have returned 0, 1 and 2 and left the replacer
\* empty; the last of them met only frame 2
C22_Witness ==
  /\ replacer = "LRU"
  /\ repl_ret.op = "Victim" /\ repl_ret.ok
  /\ repl_ret.run = <<0, 1, 2>>
  /\ repl_ret.met = <<2>>
  /\ lru_r = <<>>

\* the slots in the order the hand meets them when it starts at slot h
HandOrder(h) == [i \in 1..ReplacerPages |-> (h + i - 1) % ReplacerPages]

\* C23: clock replacer sweep rule.  Starting from the hand position the
\* previous call left, Victim clears the reference bit of each present slot
\* that has it set and moves on, skips absent slots, and returns and removes
\* the first present slot it finds with the bit clear, the hand staying on
\* it: when every present slot has its bit set, that is the first present
\* slot, on the second pass, all bits having been cleared on the first.
C23_ClockSweep ==
  [][ClockReplacerVictim
       => LET order == HandOrder(clk_next)
              present == {i \in 1..ReplacerPages : clk_frames[order[i]].contains}
              clear == {i \in present : ~clk_frames[order[i]].ref}
          IN  IF present = {}
              THEN ~repl_ret'.ok /\ UNCHANGED <<clk_frames, clk_next>>
              ELSE LET k == IF clear # {} THEN SetMin(clear) ELSE SetMin(present)
                   IN  /\ repl_ret'.ok
                       /\ repl_ret'.frame = order[k]
                       /\ clk_next' = order[k]
                       /\ clk_frames'[order[k]] = [contains |-> FALSE, ref |-> FALSE]
                       /\ \A i \in 1..ReplacerPages \ {k} :
                             clk_frames'[order[i]] =
                               IF clk_frames[order[i]].contains /\ (clear = {} \/ i < k)
                               THEN [contains |-> TRUE, ref |-> FALSE]
                               ELSE clk_frames[order[i]]]_vars

\* Victim has met every slot present with its reference bit set and has
\* returned the slot the hand stood on, leaving the other slots present with
\* their bits clear
C23_Witness ==
  /\ replacer = "Clock"
  /\ repl_ret.op = "Victim" /\ repl_ret.ok
  /\ repl_ret.met = [f \in ReplFrames |-> [contains |-> TRUE, ref |-> TRUE]]
  /\ repl_ret.frame = clk_next
  /\ \A f \in ReplFrames \ {clk_next} : clk_frames[f] = [contains |-> TRUE, ref |-> FALSE]

\* C24: replacer calls never hang.  Under any interleaving of
\* ClockReplacer::Victim with the Pin, Unpin and Size calls of other threads
\* every Victim call returns, also when the eligible set changes between its
\* emptiness check and its sweep.
C24_VictimReturns ==
  \A t \in ClockThreads : (clk_pc[t] # "idle") ~> (clk_pc[t] = "idle")

\* Size() of the replacer constructed, on the current state and on the state a
\* call met
SizeNow == IF replacer = "LRU" THEN LRUSize(lru_r) ELSE ClockSize(clk_frames)

SizeMet(met) == IF replacer = "LRU" THEN LRUSize(met) ELSE ClockSize(met)

\* frame x was tracked in the state a call met
TrackedIn(met, x) ==
  IF replacer = "LRU" THEN \E i \in 1..Len(met) : met[i] = x ELSE met[x].contains

\* Pin(x) has just returned and the call before it was Unpin(x)
UnpinThenPin ==
  /\ repl_ret.op = "Pin"
  /\ repl_ret.prev.op = "Unpin"
  /\ repl_ret.prev.frame = repl_ret.frame

\* C25 as stated: for either replacer policy, any reachable replacer state
\* and any frame x, the sequence Unpin(x); Pin(x) leaves Size() equal to its
\* value before the sequence.
C25_UnpinPinKeepsSize ==
  UnpinThenPin => SizeNow = SizeMet(repl_ret.prev.met)

\* C25 as amended: for either replacer policy, any reachable replacer state
\* and any frame x the replacer does not track in that state, the sequence
\* Unpin(x); Pin(x) leaves Size() equal to its value before the sequence;
\* for a frame x it tracks, the sequence leaves Size() one below that value.
C25_UnpinPinKeepsSizeOfUntracked ==
  UnpinThenPin =>
    SizeNow = IF TrackedIn(repl_ret.prev.met, repl_ret.frame)
              THEN SizeMet(repl_ret.prev.met) - 1
              ELSE SizeMet(repl_ret.prev.met)

\* Unpin(x); Pin(x) has run on a clock replacer that tracked another frame
\* and not x
C25_Witness ==
  /\ UnpinThenPin
  /\ replacer = "Clock"
  /\ ~TrackedIn(repl_ret.prev.met, repl_ret.frame)
  /\ SizeMet(repl_ret.prev.met) = 1
  /\ SizeNow = 1

(***************************************************************************)
(*                           CLAIMS: THE LOG                               *)
(***************************************************************************)

RECURSIVE SubtreePages(_, _, _)
SubtreePages(pgs, p, depth) ==
  IF p \notin DOMAIN pgs \/ depth = 0 THEN {}
  ELSE IF IsLeafPage(pgs[p]) THEN {p}
  ELSE {p} \cup UNION {SubtreePages(pgs, pgs[p].array[i].value, depth - 1) :
                          i \in 1..Len(pgs[p].array)}

\* the pages of the tree
TreeNodes ==
  IF root_page_id = INVALID_PAGE_ID THEN {}
  ELSE SubtreePages(tree_pages, root_page_id, MaxTreePageId)

\* the keys stored in the leaves of the subtree of page p
SubtreeKeys(p) ==
  UNION {{tree_pages[q].array[i].key : i \in 1..Len(tree_pages[q].array)} :
           q \in {x \in SubtreePages(tree_pages, p, MaxTreePageId) :
                     IsLeafPage(tree_pages[x])}}

\* C31: between calls, every leaf of the tree that is not the root holds at
\* least ceil(L/2) and at most L-1 entries, L being leaf_max_size.
C31_LeafOccupancy ==
  ~tree_crashed =>
    \A p \in TreeNodes :
      (IsLeafPage(tree_pages[p]) /\ ~IsRootPage(tree_pages[p]))
        => /\ Len(tree_pages[p].array) >= (leaf_max_size + 1) \div 2
           /\ Len(tree_pages[p].array) <= leaf_max_size - 1

\* C32: between calls, every internal page of the tree that is not the root
\* holds at least ceil(M/2) and at most M entries, M being internal_max_size,
\* and an internal root holds at least 2 and at most M.
C32_InternalOccupancy ==
  ~tree_crashed =>
    \A p \in TreeNodes :
      ~IsLeafPage(tree_pages[p])
        => /\ Len(tree_pages[p].array) <= InternalMaxSize
           /\ Len(tree_pages[p].array) >=
                 IF IsRootPage(tree_pages[p]) THEN 2 ELSE (InternalMaxSize + 1) \div 2

\* C33: between calls, in every internal page of the tree the key of each
\* slot but the first is the smallest key stored in the subtree of the child
\* of that slot.
C33_SeparatorsAreMinimums ==
  ~tree_crashed =>
    \A p \in TreeNodes :
      ~IsLeafPage(tree_pages[p])
        => \A i \in 2..Len(tree_pages[p].array) :
              LET keys == SubtreeKeys(tree_pages[p].array[i].value)
              IN  /\ keys # {}
                  /\ tree_pages[p].array[i].key = SetMin(keys)

\* a Remove has given a page back and the tree still has three levels: an
\* internal page below the root holds pairs next to an internal root
C32_Witness ==
  /\ ~tree_crashed
  /\ tree_ret.op = "Remove"
  /\ Cardinality(DOMAIN tree_pages) < tree_next_page_id - 1
  /\ \E p \in TreeNodes : ~IsLeafPage(tree_pages[p]) /\ ~IsRootPage(tree_pages[p])

\* C33 as amended: between calls, in every internal page of the tree the key
\* of each slot but the first is at most the smallest key stored in the
\* subtree of the child of that slot and greater than every key stored in
\* the subtree of the child of the slot before it.
C33_SeparatorsSeparate ==
  ~tree_crashed =>
    \A p \in TreeNodes :
      ~IsLeafPage(tree_pages[p])
        => \A i \in 2..Len(tree_pages[p].array) :
              LET keys == SubtreeKeys(tree_pages[p].array[i].value)
                  before == SubtreeKeys(tree_pages[p].array[i - 1].value)
              IN  /\ keys # {}
                  /\ tree_pages[p].array[i].key <= SetMin(keys)
                  /\ \A k \in before : k < tree_pages[p].array[i].key

\* a Remove has taken the smallest key of a leaf that is not the first child
\* of its parent: the separator of the leaf is now below every key the leaf
\* holds
C33_Witness ==
  /\ ~tree_crashed
  /\ tree_ret.op = "Remove"
  /\ \E p \in TreeNodes :
        /\ ~IsLeafPage(tree_pages[p])
        /\ \E i \in 2..Len(tree_pages[p].array) :
              LET keys == SubtreeKeys(tree_pages[p].array[i].value)
              IN  keys # {} /\ tree_pages[p].array[i].key < SetMin(keys)

(***************************************************************************)
(*                     CLAIMS: LATCHES OF THE B+TREE                       *)
(***************************************************************************)

\* the pages whose write latch thread t holds in a step: those it has
\* latched before and the sibling a step of CoalesceOrRedistribute latches
\* before it writes
WriteLatchedIn(t) ==
  {p \in DOMAIN tree_pages : page_latch[p].w = t}
    \cup (IF thread_pc[t] = "latch_sibling" THEN {threads[t].sibling} ELSE {})

\* C34: a step of an Insert or a Remove changes only pages whose write latch
\* the calling thread holds when it takes the step, or pages it allocates in
\* the step; so once the ancestors of a safe node are released, the call
\* changes none of them and no other page it has released.
C34_CrabbingSound ==
  [][\A t \in TreeThreads :
       Continue(t) =>
         \A p \in DOMAIN tree_pages \cap DOMAIN tree_pages' :
            tree_pages'[p] # tree_pages[p] => p \in WriteLatchedIn(t)]_vars

\* C35: the root mutex a call has locked is unlocked by that call before it
\* returns, whatever the path, and by no other thread: a thread between
\* calls does not hold the mutex, and the mutex passes from held by a thread
\* to not held by it only in a step of that thread.
C35_RootLatchDiscipline ==
  [][\A t \in TreeThreads :
       /\ (~tree_crashed' /\ thread_pc'[t] = "idle") => root_latch' # t
       /\ (root_latch = t /\ root_latch' # t) => Continue(t)]_vars

(***************************************************************************)
(*                  CLAIMS: REQUESTS LEFT IN THE QUEUES                    *)
(***************************************************************************)
\* t has been aborted, is in no call and holds no lock: its last call is the
\* one that ended with the DEADLOCK abort or an Unlock that followed it
AbortedAndReleased(t) ==
  /\ txn_state[t] = "ABORTED" /\ last_result[t] \in {"DEADLOCK", "none"}
  /\ waiting[t].op = "none"
  /\ shared_lock_set[t] \cup exclusive_lock_set[t] = {}

\* C36: aborted waiters leave the queue.  Once the waiting request of a
\* transaction has ended with a DEADLOCK abort and the transaction has
\* released its locks, no request of that transaction is left in the queue of
\* any rid.
C36_AbortedWaitersLeave ==
  \A t \in Txns :
     (~crashed /\ AbortedAndReleased(t))
        => \A r \in Rids : \A i \in 1..Len(lock_table[r]) : lock_table[r][i].txn_id # t

\* C39: the upgrading flag tracks a pending upgrade.  On every rid the flag is
\* set only while some transaction is blocked inside LockUpgrade on that rid;
\* once that call has ended, granted or aborted with DEADLOCK, the flag is
\* clear.
C39_UpgradingTracksPendingUpgrade ==
  ~crashed =>
     \A r \in Rids :
        upgrading[r] => \E t \in Txns : waiting[t].op = "U" /\ waiting[t].rid = r

(***************************************************************************)
(*                     CLAIMS: THE WAIT-FOR GRAPH                          *)
(***************************************************************************)
\* the simple directed cycles of the edge set E, each as the sequence of its
\* nodes; a self-loop is a cycle of one node
CyclesOf(E) ==
  {c \in UNION {[1..n -> Txns] : n \in 1..(MaxTxnId + 1)} :
      /\ \A i, j \in 1..Len(c) : i # j => c[i] # c[j]
      /\ \A i \in 1..Len(c) : <<c[i], c[(i % Len(c)) + 1]>> \in E}

\* the graph of the edge set E whatever the calls that made it: each id with
\* an edge going out, with the ids it waits for in ascending order
GraphOf(E) ==
  [t \in {e[1] : e \in E} |-> Ascending({e[2] : e \in {d \in E : d[1] = t}})]

\* C37: cycle detection is exact and deterministic.  For every graph the
\* calls of AddEdge and RemoveEdge have built over the transaction ids,
\* HasCycle returns true exactly when the edges form a directed cycle (a
\* self-loop included); the id it returns is the largest id on one cycle of
\* the graph; and the result is the one HasCycle gives for the edge set,
\* whatever the order of the calls that made it.
C37_HasCycleExact ==
  cycle_ret.called =>
     /\ cycle_ret.has_cycle <=> (CyclesOf(wf_edges) # {})
     /\ cycle_ret.has_cycle =>
          \E c \in CyclesOf(wf_edges) :
             cycle_ret.txn_id = SetMax({c[i] : i \in 1..Len(c)})
     /\ LET r == HasCycle(GraphOf(wf_edges))
        IN  /\ r.has_cycle = cycle_ret.has_cycle
            /\ r.has_cycle => r.txn_id = cycle_ret.txn_id

\* C37 witness: HasCycle has been called on a graph with the two cycles
\* 0 -> 1 -> 0 and 0 -> 2 -> 0 and has returned the id 1 of the first
C37_Witness ==
  /\ cycle_ret.called /\ cycle_ret.has_cycle /\ cycle_ret.txn_id = 1
  /\ {<<0, 1>>, <<1, 0>>, <<0, 2>>, <<2, 0>>} \subseteq wf_edges

(***************************************************************************)
(*                      CLAIMS: THE HASH TABLE                             *)
(***************************************************************************)
\* the slots of the directory in use
UsedSlots == 0..(2^global_depth - 1)

\* C40: directory integrity.  After every Insert and Remove that returns,
\* the slots that point to the same bucket page have the same local depth,
\* every local depth is at most the global depth, and a bucket of local depth
\* d is pointed to by exactly the 2^(global depth - d) slots that agree on
\* their low d bits.
C40_DirectoryIntegrity ==
  ~hash_ret.aborted =>
     \A i \in UsedSlots :
        /\ local_depths[i] <= global_depth
        /\ \A j \in UsedSlots :
              bucket_page_ids[i] = bucket_page_ids[j] => local_depths[i] = local_depths[j]
        /\ {j \in UsedSlots : bucket_page_ids[j] = bucket_page_ids[i]}
              = {j \in UsedSlots : j % 2^local_depths[i] = i % 2^local_depths[i]}

(***************************************************************************)
(*                    CLAIMS: THE HAND OF THE CLOCK                        *)
(***************************************************************************)
\* C38: Clock Victim step bound.  A Victim call that takes the mutex with
\* Size() > 0, and so sweeps with no other call of the replacer in between,
\* returns a frame within 2 * pool_size steps of the hand, whatever the
\* position of the hand and the present and reference bits it starts from.
C38_VictimStepBound ==
  [][\A t \in ClockThreads :
       (VictimLock(t) /\ ClockSize(clk_frames) > 0)
          => HandSteps(clk_frames', clk_next', 2 * ReplacerPages) <= 2 * ReplacerPages]_vars

\* C38 witness: a thread holds the mutex inside Victim with a slot present,
\* and its sweep takes all of the 2 * pool_size steps: the only candidate is
\* the slot behind the hand, with its reference bit set
C38_Witness ==
  \E t \in ClockThreads :
     /\ clk_pc[t] = "sweep"
     /\ ClockSize(clk_frames) > 0
     /\ HandSteps(clk_frames, clk_next, 2 * ReplacerPages) = 2 * ReplacerPages

=============================================================================
